---- MODULE Spec2Model ----
(***************************************************************************)
(* Model of the retail-ml IPFS service: the IPFSService client             *)
(* (src/services/ipfs.js) and the Express application that calls it        *)
(* (src/scripts/test-ipfs.js, lines 136-830).                              *)
(*                                                                         *)
(* Strings whose characters the code inspects (identifiers, names, query   *)
(* parameters) are sequences of one-character strings.  Numbers that can   *)
(* be NaN are records [nan, v].                                            *)
(***************************************************************************)
EXTENDS Integers, Sequences, FiniteSets, TLC

\* ------------------------------------------------------------------------
\* Bounds of the model
\* ------------------------------------------------------------------------
\* largest number of rows a finite provider holds
MaxPins == 250
\* page requests one listing may issue against a provider that never ends
MaxPages == 4

\* ------------------------------------------------------------------------
\* Numbers and strings
\* ------------------------------------------------------------------------
Num(n) == [nan |-> FALSE, v |-> n]
NaN == [nan |-> TRUE, v |-> 0]

\* mutant of GEq: a comparison with NaN counts as true
GEq_NaNIsTrue(a, b) == b.nan \/ a >= b.v

\* a >= b of JavaScript for an integer a and a number b: false when b is NaN
GEq(a, b) == (~b.nan) /\ a >= b.v

Digits == <<"0", "1", "2", "3", "4", "5", "6", "7", "8", "9">>

DigitVal(c) == CHOOSE d \in 0..9 : Digits[d + 1] = c

IsDigit(c) == \E d \in 1..10 : Digits[d] = c

RECURSIVE DigitPrefix(_, _)
\* value of the longest run of digits at the head of s, read after acc
DigitPrefix(s, acc) ==
  IF s = <<>> \/ ~IsDigit(Head(s)) THEN acc
  ELSE DigitPrefix(Tail(s), acc * 10 + DigitVal(Head(s)))

\* parseInt(s) for a string s: optional sign, leading digits, NaN if none
ParseInt(s) ==
  LET neg == s # <<>> /\ Head(s) = "-"
      body == IF s # <<>> /\ Head(s) \in {"-", "+"} THEN Tail(s) ELSE s
  IN IF body = <<>> \/ ~IsDigit(Head(body)) THEN NaN
     ELSE Num(IF neg THEN 0 - DigitPrefix(body, 0) ELSE DigitPrefix(body, 0))

StartsWith(s, p) == Len(p) <= Len(s) /\ SubSeq(s, 1, Len(p)) = p

\* String.prototype.includes
Includes(s, p) == \E i \in 0..(Len(s) - Len(p)) : SubSeq(s, i + 1, i + Len(p)) = p

Min(a, b) == IF a < b THEN a ELSE b

Max(a, b) == IF a > b THEN a ELSE b

\* "abc" as the list of its characters
Str_model == <<"m", "o", "d", "e", "l">>

Str_tft == <<"t", "f", "t">>

Str_ml_model == <<"m", "l", "-">> \o Str_model

Str_tft_type ==
  <<"t", "e", "m", "p", "o", "r", "a", "l", "_", "f", "u", "s", "i", "o", "n", "_",
    "t", "r", "a", "n", "s", "f", "o", "r", "m", "e", "r">>

Str_retail_model == <<"r", "e", "t", "a", "i", "l", "-">> \o Str_model \o <<"-">>

Str_retail_churn_tft ==
  <<"r", "e", "t", "a", "i", "l", "-", "c", "h", "u", "r", "n", "-">> \o Str_tft

Str_notes == <<"n", "o", "t", "e", "s", ".", "t", "x", "t">>

Str_file == <<"f", "i", "l", "e", "-">>

\* decimal digits of a natural number
RECURSIVE NatStr(_)
NatStr(n) == IF n < 10 THEN <<Digits[n + 1]>> ELSE NatStr(n \div 10) \o <<Digits[(n % 10) + 1]>>

\* ------------------------------------------------------------------------
\* JavaScript objects are functions from field names to values
\* ------------------------------------------------------------------------
EmptyObj == [k \in {} |-> 0]

JSNull == [null |-> TRUE]

\* reading a field: undefined when the object does not have it
Undefined == [defined |-> FALSE]

Defined(v) == [defined |-> TRUE, v |-> v]

Read(obj, field) == IF field \in DOMAIN obj THEN Defined(obj[field]) ELSE Undefined

\* ------------------------------------------------------------------------
\* The pinning provider (api.pinata.cloud), as the service sees it
\* ------------------------------------------------------------------------
Base58 ==
  <<"1", "2", "3", "4", "5", "6", "7", "8", "9",
    "A", "B", "C", "D", "E", "F", "G", "H", "J", "K", "L", "M", "N", "P", "Q", "R",
    "S", "T", "U", "V", "W", "X", "Y", "Z",
    "a", "b", "c", "d", "e", "f", "g", "h", "i", "j", "k", "m", "n", "o", "p", "q",
    "r", "s", "t", "u", "v", "w", "x", "y", "z">>

\* the content identifier of the provider's i-th stored object (CID v0)
CidOf(i) ==
  <<"Q", "m">> \o [k \in 1..44 |->
      IF k = 44 THEN Base58[(i % 58) + 1]
      ELSE IF k = 43 THEN Base58[((i \div 58) % 58) + 1]
      ELSE "X"]

\* the i-th row of the provider's pin list, newest first: rows differ in
\* whether they carry metadata, in their name and in their tags
BaseRow(i) ==
  LET kind == i % 4
      common == [ipfs_pin_hash |-> CidOf(i), size |-> 1000 + i, date_pinned |-> 100000 - i]
  IN IF kind = 0 THEN
       common @@ [metadata |-> [name |-> Str_retail_model \o NatStr(i),
                                keyvalues |-> [type |-> Str_ml_model,
                                               version |-> <<"1", ".", "0", ".", "0">>,
                                               accuracy |-> <<"0", ".", "9", "5">>]]]
     ELSE IF kind = 1 THEN
       common @@ [metadata |-> JSNull]
     ELSE IF kind = 2 THEN
       common @@ [metadata |-> [name |-> Str_notes, keyvalues |-> EmptyObj]]
     ELSE
       common @@ [metadata |-> [name |-> Str_retail_churn_tft,
                                keyvalues |-> [type |-> Str_tft_type,
                                               version |-> <<"2", ".", "1", ".", "0">>,
                                               accuracy |-> <<"0", ".", "7">>]]]

VARIABLES
  pinCount,   \* rows the provider held before this run
  endless,    \* TRUE: the provider answers every page request with a full page
  stored,     \* objects stored by this run's uploads, oldest first
  route,      \* the operation or route handler in progress, "idle" if none
  req,        \* the parameters of the operation in progress
  lp,         \* listPinnedFiles: the frame of the call in progress
  gf,         \* getFromIPFS: the frame of the call in progress
  call,       \* a component call that issues one request: its frame
  net,        \* outbound requests issued for the operation in progress
  res,        \* the outcome of the operation: a result, an error or a response
  http,       \* the Express application: the request being routed
  fetched     \* getFromIPFS calls that have returned or thrown, oldest first

vars == <<pinCount, endless, stored, route, req, lp, gf, call, net, res, http, fetched>>

\* the pin-list row of an object this run stored
StoredRow(o) ==
  [ipfs_pin_hash |-> o.hash, size |-> o.size, date_pinned |-> o.pinnedAt,
   metadata |-> o.pinataMetadata]

\* the i-th row of the pin list, newest first
PinAt(i) ==
  IF i <= Len(stored) THEN StoredRow(stored[Len(stored) - i + 1])
  ELSE BaseRow(i - Len(stored))

TotalPins == Len(stored) + pinCount

\* the rows the provider returns for pageLimit = n, pageOffset = offset
PageRows(offset, n) ==
  LET have == IF endless THEN n ELSE Min(n, Max(0, TotalPins - offset))
  IN [k \in 1..have |-> PinAt(offset + k)]

\* the response to GET /data/pinList
PinListResponse(offset, n) ==
  [data |-> [count |-> TotalPins, rows |-> PageRows(offset, n)]]

\* the ways an outbound request fails (axios errors)
ErrTimeout == [message |-> "timeout of 30000ms exceeded", code |-> "ECONNABORTED"]

ErrUnreachable == [message |-> "getaddrinfo ENOTFOUND", code |-> "ENOTFOUND"]

ErrHttp(status, data) ==
  [message |-> "Request failed with status code", code |-> "ERR_BAD_RESPONSE",
   response |-> [status |-> status, data |-> data]]

Errors ==
  {ErrTimeout, ErrUnreachable,
   ErrHttp(401, [error |-> "INVALID_CREDENTIALS"]),
   ErrHttp(403, [error |-> "NO_SCOPES_FOUND"]),
   ErrHttp(400, [error |-> "Invalid request format"]),
   ErrHttp(500, EmptyObj)}

\* error.response?.data?.error || error.message
ErrorText(error) ==
  IF "response" \in DOMAIN error /\ "error" \in DOMAIN error.response.data
  THEN error.response.data.error
  ELSE error.message

\* ------------------------------------------------------------------------
\* IPFSService.listPinnedFiles
\* ------------------------------------------------------------------------
pageLimit == 100

NoFrame == [pc |-> "idle"]

NoResult == [pending |-> TRUE]

\* the row listPinnedFiles returns for a provider row
ListedRow(file) ==
  [ipfs_pin_hash |-> file.ipfs_pin_hash,
   name |-> IF file.metadata # JSNull THEN file.metadata.name
            ELSE Str_file \o SubSeq(file.ipfs_pin_hash, 1, 8),
   size |-> file.size,
   date_pinned |-> file.date_pinned,
   metadata |-> IF file.metadata # JSNull THEN file.metadata ELSE EmptyObj,
   status |-> "pinned"]

ListSuccess(allFiles) ==
  [success |-> TRUE, count |-> Len(allFiles),
   rows |-> [k \in 1..Len(allFiles) |-> ListedRow(allFiles[k])]]

ListFailure(error) ==
  [success |-> FALSE, error |-> ErrorText(error),
   message |-> "Failed to list pinned files"]

\* mutant of StopAfterPage: a full page ends the listing too
StopAfterPage_FullPageEnds(allFiles, rows, limit) ==
  GEq(Len(allFiles), limit) \/ Len(rows) <= pageLimit

\* the break after a page was appended
StopAfterPage(allFiles, rows, limit) ==
  GEq(Len(allFiles), limit) \/ Len(rows) < pageLimit

\* the break before a page is appended
EmptyPage(response) ==
  "rows" \notin DOMAIN response.data \/ Len(response.data.rows) = 0

\* mutant of ListEnter: the limit argument is ignored for the default
ListEnter_DefaultLimit(limit, status) ==
  [pc |-> "loop", limit |-> Num(1000), status |-> status, allFiles |-> <<>>,
   pageOffset |-> 0, requests |-> <<>>, result |-> NoResult]

\* the frame at the top of the while loop
ListEnter(limit, status) ==
  [pc |-> "loop", limit |-> limit, status |-> status, allFiles |-> <<>>,
   pageOffset |-> 0, requests |-> <<>>, result |-> NoResult]

\* the request of one iteration
ListRequest(f) ==
  [pageLimit |-> pageLimit, pageOffset |-> f.pageOffset, status |-> f.status]

\* mutant of ListPageOk: pageOffset is not advanced
ListPageOk_SameOffset(f, response) ==
  LET asked == [f EXCEPT !.requests = Append(@, ListRequest(f))]
  IN IF EmptyPage(response)
     THEN [asked EXCEPT !.pc = "done", !.result = ListSuccess(f.allFiles)]
     ELSE LET all == f.allFiles \o response.data.rows
              next == [asked EXCEPT !.allFiles = all]
          IN IF StopAfterPage(all, response.data.rows, f.limit)
             THEN [next EXCEPT !.pc = "done", !.result = ListSuccess(all)]
             ELSE next

\* one iteration of the loop whose request was answered by response
ListPageOk(f, response) ==
  LET asked == [f EXCEPT !.requests = Append(@, ListRequest(f))]
  IN IF EmptyPage(response)
     THEN [asked EXCEPT !.pc = "done", !.result = ListSuccess(f.allFiles)]
     ELSE LET all == f.allFiles \o response.data.rows
              next == [asked EXCEPT !.allFiles = all, !.pageOffset = @ + pageLimit]
          IN IF StopAfterPage(all, response.data.rows, f.limit)
             THEN [next EXCEPT !.pc = "done", !.result = ListSuccess(all)]
             ELSE next

\* mutant of ListPageThrows: the rows of the earlier pages are returned
ListPageThrows_KeepsRows(f, error) ==
  [f EXCEPT !.requests = Append(@, ListRequest(f)), !.pc = "done",
            !.result = ListFailure(error) @@ ListSuccess(f.allFiles)]

\* one iteration of the loop whose request threw error
ListPageThrows(f, error) ==
  [f EXCEPT !.requests = Append(@, ListRequest(f)), !.pc = "done",
            !.result = ListFailure(error)]

\* ------------------------------------------------------------------------
\* JSON texts: JSON.stringify(v) is the text that encodes v, and
\* JSON.parse gives v back; any other text does not parse
\* ------------------------------------------------------------------------
Stringify(v) == [json |-> v]

PlainText(t) == [text |-> t]

IsString(v) == DOMAIN v = {"json"} \/ DOMAIN v = {"text"}

CanParse(t) == DOMAIN t = {"json"}

Parse(t) == t.json

\* response.data of axios for a body: the parsed value when the body is
\* JSON, the body itself otherwise
AxiosData(body) == IF CanParse(body) THEN Parse(body) ELSE body

\* ------------------------------------------------------------------------
\* IPFSService.getFromIPFS
\* ------------------------------------------------------------------------
Gateways == <<"gateway.pinata.cloud", "ipfs.io", "cloudflare-ipfs.com">>

\* the calls on record that returned the document of this identifier
FetchedBefore(ipfsHash) ==
  {h \in 1..Len(fetched) :
     fetched[h].ipfsHash = ipfsHash /\ "returned" \in DOMAIN fetched[h].result}

\* mutant of FetchEnter: a document fetched before is returned from a cache
FetchEnter_Cached(ipfsHash) ==
  IF FetchedBefore(ipfsHash) # {}
  THEN [pc |-> "done", ipfsHash |-> ipfsHash, tried |-> <<>>,
        result |-> fetched[CHOOSE h \in FetchedBefore(ipfsHash) : TRUE].result]
  ELSE [pc |-> "try", ipfsHash |-> ipfsHash, tried |-> <<>>, result |-> NoResult]

FetchEnter(ipfsHash) ==
  [pc |-> "try", ipfsHash |-> ipfsHash, tried |-> <<>>, result |-> NoResult]

\* the gateway the next request goes to
NextGateway(f) == Gateways[Len(f.tried) + 1]

\* mutant of FetchOk: the body is serialised as received, not response.data
FetchOk_RawBody(f, body) ==
  [f EXCEPT !.tried = Append(@, [gateway |-> NextGateway(f), ok |-> TRUE]),
            !.pc = "done",
            !.result = [returned |-> Stringify(body)]]

\* the request to the next gateway was answered with body
FetchOk(f, body) ==
  [f EXCEPT !.tried = Append(@, [gateway |-> NextGateway(f), ok |-> TRUE]),
            !.pc = "done",
            !.result = [returned |-> Stringify(AxiosData(body))]]

\* mutant of AfterFailure: the call gives up after the second gateway
AfterFailure_NoThirdGateway(k, error) ==
  IF k < 2
  THEN [pc |-> "try", result |-> NoResult]
  ELSE [pc |-> "done",
        result |-> [thrown |-> [message |-> <<"Failed to fetch from IPFS: ", error.message>>]]]

\* the catch block entered when the request to gateway k threw
AfterFailure(k, error) ==
  IF k < Len(Gateways)
  THEN [pc |-> "try", result |-> NoResult]
  ELSE [pc |-> "done",
        result |-> [thrown |-> [message |-> <<"Failed to fetch from IPFS: ", error.message>>]]]

\* the request to the next gateway threw error
FetchThrows(f, error) ==
  LET k == Len(f.tried) + 1
      after == AfterFailure(k, error)
  IN [f EXCEPT !.tried = Append(@, [gateway |-> NextGateway(f), ok |-> FALSE]),
               !.pc = after.pc, !.result = after.result]

\* ------------------------------------------------------------------------
\* IPFSService.uploadToIPFS
\* ------------------------------------------------------------------------
\* fractional numbers (accuracy) are counted in units of 1/Scale
Scale == 10000

\* Date.now(), in hours
Now == 100000 + Len(stored)

RECURSIVE DropZeros(_)
\* the digits of a fraction without its trailing zeros
DropZeros(ds) ==
  IF ds # <<>> /\ ds[Len(ds)] = "0" THEN DropZeros(SubSeq(ds, 1, Len(ds) - 1)) ELSE ds

\* the four digits of a fraction f of Scale
FractionDigits(f) ==
  <<Digits[(f \div 1000) + 1], Digits[((f \div 100) % 10) + 1],
    Digits[((f \div 10) % 10) + 1], Digits[(f % 10) + 1]>>

\* Number.prototype.toString for a number of a/Scale
NumberToString(a) ==
  LET m == IF a < 0 THEN 0 - a ELSE a
      frac == DropZeros(FractionDigits(m % Scale))
  IN (IF a < 0 THEN <<"-">> ELSE <<>>) \o NatStr(m \div Scale)
     \o (IF frac = <<>> THEN <<>> ELSE <<".">> \o frac)

\* metadata.<field> || fallback, for a string field
FieldOr(metadata, field, fallback) ==
  IF field \in DOMAIN metadata /\ metadata[field] # <<>> THEN metadata[field] ELSE fallback

\* the document that is stored
UploadData(data, metadata) ==
  [data |-> data,
   metadata |-> [uploadedAt |-> Now, service |-> "retail-ml-ipfs-service",
                 version |-> <<"1", ".", "0", ".", "0">>] @@ metadata]

\* the name and the tags the provider keeps with the stored object
PinataMetadata(metadata) ==
  [name |-> FieldOr(metadata, "modelName", Str_retail_model \o NatStr(Now)),
   keyvalues |->
     [version |-> FieldOr(metadata, "version", <<"1", ".", "0", ".", "0">>),
      type |-> FieldOr(metadata, "modelType", Str_ml_model),
      accuracy |-> IF "accuracy" \in DOMAIN metadata
                   THEN NumberToString(metadata.accuracy) ELSE <<"0">>,
      timestamp |-> IF "timestamp" \in DOMAIN metadata
                    THEN metadata.timestamp ELSE NatStr(Now),
      service |-> "retail-churn-prediction"]]

\* what the provider stores and pins for POST /pinning/pinFileToIPFS
StoredObject(data, metadata) ==
  [hash |-> CidOf(3000 + Len(stored)), size |-> 500 + Len(stored), pinnedAt |-> Now,
   pinataMetadata |-> PinataMetadata(metadata),
   content |-> Stringify(UploadData(data, metadata))]

\* the provider's answer for a stored object
PinResponse(o) ==
  [data |-> [IpfsHash |-> o.hash, PinSize |-> o.size, Timestamp |-> o.pinnedAt]]

UploadReturns(response) ==
  [returned |-> [ipfsHash |-> response.data.IpfsHash,
                 ipfsUrl |-> <<Gateways[1], response.data.IpfsHash>>,
                 pinSize |-> response.data.PinSize,
                 timestamp |-> response.data.Timestamp,
                 publicUrl |-> <<Gateways[2], response.data.IpfsHash>>]]

\* mutant of UploadErrorMessage: status 403 is not told apart
UploadErrorMessage_No403(error) ==
  IF "response" \in DOMAIN error /\ error.response.status = 401
    THEN "Invalid Pinata API credentials. Check your PINATA_JWT token."
  ELSE IF error.code = "ENOTFOUND"
    THEN "Network error: Cannot reach Pinata API. Check your internet connection."
  ELSE ErrorText(error)

\* the cause named in the error of a failed upload
UploadErrorMessage(error) ==
  IF "response" \in DOMAIN error /\ error.response.status = 401
    THEN "Invalid Pinata API credentials. Check your PINATA_JWT token."
  ELSE IF "response" \in DOMAIN error /\ error.response.status = 403
    THEN "Pinata API key does not have required permissions."
  ELSE IF error.code = "ENOTFOUND"
    THEN "Network error: Cannot reach Pinata API. Check your internet connection."
  ELSE ErrorText(error)

UploadThrows(error) ==
  [thrown |-> [message |-> <<"IPFS upload failed: ", UploadErrorMessage(error)>>]]

\* ------------------------------------------------------------------------
\* IPFSService: the remaining methods
\* ------------------------------------------------------------------------
Base58Chars == {Base58[i] : i \in 1..Len(Base58)}

\* /^Qm[1-9A-HJ-NP-Za-km-z]{44}$/ or /^bafy[1-9A-HJ-NP-Za-km-z]{52}$/
isValidIPFSHash(hash) ==
  \/ /\ Len(hash) = 46
     /\ SubSeq(hash, 1, 2) = <<"Q", "m">>
     /\ \A i \in 3..46 : hash[i] \in Base58Chars
  \/ /\ Len(hash) = 56
     /\ SubSeq(hash, 1, 4) = <<"b", "a", "f", "y">>
     /\ \A i \in 5..56 : hash[i] \in Base58Chars

getGateways(ipfsHash) ==
  [pinata |-> <<Gateways[1], ipfsHash>>, ipfsIo |-> <<Gateways[2], ipfsHash>>,
   cloudflare |-> <<Gateways[3], ipfsHash>>, dweb |-> <<"dweb.link", ipfsHash>>]

\* rows of the pin list the provider can be asked about
KnownPins == 1..(IF endless THEN MaxPages * pageLimit ELSE TotalPins)

\* the answer to GET /data/pinList?hashContains=<hash>
HashContainsResponse(ipfsHash) ==
  LET hits == {i \in KnownPins : Includes(PinAt(i).ipfs_pin_hash, ipfsHash)}
  IN [data |-> [count |-> Cardinality(hits),
                rows |-> IF hits = {} THEN <<>>
                         ELSE <<PinAt(CHOOSE i \in hits : \A j \in hits : i <= j)>>]]

PinStatusFailure(message) ==
  [success |-> FALSE, error |-> message, message |-> "Failed to get pin status"]

\* getPinStatus when its request was answered; reading the name of a pin
\* that has no metadata throws inside the try block
PinStatusOk(ipfsHash, response) ==
  LET found == {k \in 1..Len(response.data.rows) :
                  response.data.rows[k].ipfs_pin_hash = ipfsHash}
  IN IF found = {}
     THEN [success |-> TRUE, pinned |-> FALSE, message |-> "File not found in pin list"]
     ELSE LET pin == response.data.rows[CHOOSE k \in found : \A j \in found : k <= j]
          IN IF pin.metadata = JSNull
             THEN PinStatusFailure("Cannot read properties of null (reading 'name')")
             ELSE [success |-> TRUE, pinned |-> TRUE,
                   data |-> [ipfsHash |-> pin.ipfs_pin_hash, name |-> pin.metadata.name,
                             size |-> pin.size, timestamp |-> pin.date_pinned,
                             status |-> "pinned"]]

PinStatusThrows(error) == PinStatusFailure(ErrorText(error))

TestConnectionOk(response) ==
  [success |-> TRUE, message |-> "Pinata connection successful", data |-> response.data]

TestConnectionThrows(error) ==
  [success |-> FALSE, error |-> ErrorText(error), message |-> "Failed to connect to Pinata"]

\* unpinFile when its request was answered
UnpinOk(f, response) ==
  [f EXCEPT !.pc = "done",
            !.result = [success |-> TRUE, message |-> "File unpinned successfully",
                        data |-> response.data]]

\* mutant of UnpinFailure: the request is made again
UnpinFailure_Retries(f, error) == f

\* unpinFile when its request threw
UnpinFailure(f, error) ==
  [f EXCEPT !.pc = "done",
            !.result = [success |-> FALSE, error |-> ErrorText(error),
                        message |-> "Failed to unpin file"]]

\* ------------------------------------------------------------------------
\* IPFSService.listUnpinnedFiles and IPFSService.listAllFiles
\* ------------------------------------------------------------------------
\* the row listUnpinnedFiles returns for a provider row
UnpinnedRow(file) ==
  [ipfs_pin_hash |-> file.ipfs_pin_hash,
   name |-> IF file.metadata # JSNull THEN file.metadata.name
            ELSE <<"u", "n", "p", "i", "n", "n", "e", "d", "-">>
                   \o SubSeq(file.ipfs_pin_hash, 1, 8),
   size |-> file.size,
   date_pinned |-> file.date_pinned,
   metadata |-> IF file.metadata # JSNull THEN file.metadata ELSE EmptyObj,
   status |-> "unpinned"]

\* catch (error) of listUnpinnedFiles
UnpinnedFailure(error) ==
  [success |-> FALSE, error |-> ErrorText(error),
   message |-> "Failed to list unpinned files"]

\* response.data.rows.map of a response without rows throws
ErrNoRows == [message |-> "Cannot read properties of undefined (reading 'map')"]

\* listUnpinnedFiles when its request was answered
UnpinnedOk(f, response) ==
  [f EXCEPT !.pc = "done",
            !.result = IF "rows" \notin DOMAIN response.data
                       THEN UnpinnedFailure(ErrNoRows)
                       ELSE [success |-> TRUE, count |-> response.data.count,
                             rows |-> [k \in 1..Len(response.data.rows) |->
                                         UnpinnedRow(response.data.rows[k])]]]

\* listUnpinnedFiles when its request threw
UnpinnedThrows(f, error) ==
  [f EXCEPT !.pc = "done", !.result = UnpinnedFailure(error)]

\* result.rows?.length || 0
RowsLength(result) == IF "rows" \in DOMAIN result THEN Len(result.rows) ELSE 0

\* result.success ? result.rows : []
RowsIfSuccess(result) == IF result.success THEN result.rows ELSE <<>>

\* mutant of AllFiles: the unpinned rows come first
AllFiles_UnpinnedFirst(pinnedResult, unpinnedResult) ==
  RowsIfSuccess(unpinnedResult) \o RowsIfSuccess(pinnedResult)

\* the rows of the two results, spread into one array
AllFiles(pinnedResult, unpinnedResult) ==
  RowsIfSuccess(pinnedResult) \o RowsIfSuccess(unpinnedResult)

\* mutant of ListAllReturns: a failed listing fails listAllFiles
ListAllReturns_FailsWithPart(pinnedResult, unpinnedResult) ==
  IF pinnedResult.success /\ unpinnedResult.success
  THEN [success |-> TRUE, count |-> Len(AllFiles(pinnedResult, unpinnedResult)),
        rows |-> AllFiles(pinnedResult, unpinnedResult),
        pinnedCount |-> RowsLength(pinnedResult),
        unpinnedCount |-> RowsLength(unpinnedResult)]
  ELSE [success |-> FALSE,
        error |-> IF pinnedResult.success THEN unpinnedResult.error ELSE pinnedResult.error,
        message |-> "Failed to list all files"]

\* listAllFiles once Promise.all has both results
ListAllReturns(pinnedResult, unpinnedResult) ==
  LET allFiles == AllFiles(pinnedResult, unpinnedResult)
  IN [success |-> TRUE, count |-> Len(allFiles), rows |-> allFiles,
      pinnedCount |-> RowsLength(pinnedResult),
      unpinnedCount |-> RowsLength(unpinnedResult)]

\* ------------------------------------------------------------------------
\* The routes' helpers (scripts/test-ipfs.js, the application part)
\* ------------------------------------------------------------------------
RECURSIVE TakeDigits(_)
TakeDigits(s) ==
  IF s = <<>> \/ ~IsDigit(Head(s)) THEN <<>> ELSE <<Head(s)>> \o TakeDigits(Tail(s))

\* parseFloat(s) in units of 1/Scale: sign, digits, a fraction; NaN if no digit
ParseFloat(s) ==
  LET neg == s # <<>> /\ Head(s) = "-"
      body == IF s # <<>> /\ Head(s) \in {"-", "+"} THEN Tail(s) ELSE s
      ip == TakeDigits(body)
      rest == SubSeq(body, Len(ip) + 1, Len(body))
      fp == IF rest # <<>> /\ Head(rest) = "." THEN TakeDigits(Tail(rest)) ELSE <<>>
      fp4 == SubSeq(fp \o <<"0", "0", "0", "0">>, 1, 4)
      v == DigitPrefix(ip, 0) * Scale + DigitPrefix(fp4, 0)
  IN IF ip = <<>> /\ fp = <<>> THEN NaN ELSE Num(IF neg THEN 0 - v ELSE v)

\* file.metadata?.keyvalues
KeyValues(file) ==
  IF "keyvalues" \in DOMAIN file.metadata THEN file.metadata.keyvalues ELSE EmptyObj

\* file.metadata?.keyvalues?.<key>
Tag(file, key) == Read(KeyValues(file), key)

\* file.metadata?.keyvalues?.<key> || fallback
TagOr(file, key, fallback) ==
  IF Tag(file, key).defined /\ Tag(file, key).v # <<>> THEN Tag(file, key).v ELSE fallback

\* parseFloat(file.metadata?.keyvalues?.accuracy || 0)
AccuracyOf(file) ==
  IF Tag(file, "accuracy").defined /\ Tag(file, "accuracy").v # <<>>
  THEN ParseFloat(Tag(file, "accuracy").v) ELSE Num(0)

\* file.name?.includes(part)
NameIncludes(file, part) == "name" \in DOMAIN file /\ Includes(file.name, part)

\* the filter of search-models and of statistics
IsModelFile(file) ==
  \/ Tag(file, "type") = Defined(Str_ml_model)
  \/ Tag(file, "modelType") = Defined(Str_tft_type)
  \/ NameIncludes(file, Str_model)

\* mutant of IsListedModelFile: list-models filters as the other two routes do
IsListedModelFile_NoTft(file) == IsModelFile(file)

\* the filter of list-models
IsListedModelFile(file) == IsModelFile(file) \/ NameIncludes(file, Str_tft)

\* rows.filter(...) with the filter of list-models (tft = TRUE) or the other
SelectModels(rows, tft) ==
  LET Kept(file) == IF tft THEN IsListedModelFile(file) ELSE IsModelFile(file)
  IN SelectSeq(rows, Kept)

Str_unknown == <<"u", "n", "k", "n", "o", "w", "n">>

Str_1_0_0 == <<"1", ".", "0", ".", "0">>

RECURSIVE UnitIndex(_)
\* Math.floor(Math.log(bytes) / Math.log(1024))
UnitIndex(bytes) == IF bytes < 1024 THEN 0 ELSE 1 + UnitIndex(bytes \div 1024)

RECURSIVE Pow1024(_)
Pow1024(i) == IF i = 0 THEN 1 ELSE 1024 * Pow1024(i - 1)

Sizes == <<"Bytes", "KB", "MB", "GB", "TB">>

\* formatBytes: the value in hundredths of the unit, rounded, and the unit
formatBytes(bytes) ==
  IF bytes = 0 THEN [value |-> 0, unit |-> "Bytes"]
  ELSE LET i == UnitIndex(bytes)
       IN [value |-> (2 * 100 * bytes + Pow1024(i)) \div (2 * Pow1024(i)),
           unit |-> IF i < Len(Sizes) THEN Sizes[i + 1] ELSE "undefined"]

\* the entry list-models makes of a row
ListedModel(file) ==
  [modelId |-> Read(file, "ipfsHash"),
   ipfsHash |-> Read(file, "ipfsHash"),
   name |-> file.name,
   modelType |-> TagOr(file, "modelType", Str_unknown),
   version |-> TagOr(file, "version", Str_1_0_0),
   accuracy |-> AccuracyOf(file),
   size |-> file.size,
   sizeFormatted |-> formatBytes(file.size),
   uploadedAt |-> Read(file, "timestamp"),
   ipfsUrl |-> <<Gateways[1], Read(file, "ipfsHash")>>,
   publicUrl |-> <<Gateways[2], Read(file, "ipfsHash")>>,
   metadata |-> KeyValues(file),
   gateways |-> [pinata |-> <<Gateways[1], Read(file, "ipfsHash")>>,
                 ipfsIo |-> <<Gateways[2], Read(file, "ipfsHash")>>,
                 cloudflare |-> <<Gateways[3], Read(file, "ipfsHash")>>]]

\* the entry search-models makes of a row
FoundModel(file) ==
  [modelId |-> Read(file, "ipfsHash"),
   ipfsHash |-> Read(file, "ipfsHash"),
   name |-> file.name,
   modelType |-> TagOr(file, "modelType", Str_unknown),
   version |-> TagOr(file, "version", Str_1_0_0),
   accuracy |-> AccuracyOf(file),
   uploadedAt |-> Read(file, "timestamp"),
   ipfsUrl |-> <<Gateways[1], Read(file, "ipfsHash")>>,
   metadata |-> KeyValues(file)]

\* new Date(b) - new Date(a): NaN when either date is invalid
DateDiff(b, a) == IF b.defined /\ a.defined THEN Num(b.v - a.v) ELSE NaN

\* b - a of two numbers
NumDiff(b, a) == IF b.nan \/ a.nan THEN NaN ELSE Num(b.v - a.v)

\* the order of characters under localeCompare: punctuation, digits, letters,
\* a lower-case letter right before its capital
Collation ==
  <<"_", "-", ".", "0", "1", "2", "3", "4", "5", "6", "7", "8", "9",
    "a", "A", "b", "B", "c", "C", "d", "D", "e", "E", "f", "F", "g", "G", "h", "H",
    "i", "I", "j", "J", "k", "K", "l", "L", "m", "M", "n", "N", "o", "O", "p", "P",
    "q", "Q", "r", "R", "s", "S", "t", "T", "u", "U", "v", "V", "w", "W", "x", "X",
    "y", "Y", "z", "Z">>

CharRank(c) ==
  IF \E i \in 1..Len(Collation) : Collation[i] = c
  THEN CHOOSE i \in 1..Len(Collation) : Collation[i] = c
  ELSE 0

\* String.prototype.localeCompare: decided by the first position at which
\* the characters differ in rank, else by the lengths
localeCompare(a, b) ==
  LET differ == {i \in 1..Min(Len(a), Len(b)) : CharRank(a[i]) # CharRank(b[i])}
  IN IF differ = {}
     THEN (IF Len(a) < Len(b) THEN 0 - 1 ELSE IF Len(a) > Len(b) THEN 1 ELSE 0)
     ELSE LET i == CHOOSE j \in differ : \A k \in differ : j <= k
          IN IF CharRank(a[i]) < CharRank(b[i]) THEN 0 - 1 ELSE 1

\* the comparator of sortModels, and (key "timestamp") the one statistics
\* sorts the files with
Comparison(sortBy, a, b) ==
  IF sortBy = "name" THEN Num(localeCompare(a.name, b.name))
  ELSE IF sortBy = "accuracy" THEN NumDiff(b.accuracy, a.accuracy)
  ELSE IF sortBy = "size" THEN Num(b.size - a.size)
  ELSE IF sortBy = "timestamp" THEN DateDiff(Read(b, "timestamp"), Read(a, "timestamp"))
  ELSE DateDiff(b.uploadedAt, a.uploadedAt)

\* order === 'asc' ? -comparison : comparison
Ordered(sortBy, order, a, b) ==
  LET comparison == Comparison(sortBy, a, b)
  IN IF order = "asc" /\ ~comparison.nan THEN Num(0 - comparison.v) ELSE comparison

\* Array.prototype.sort puts b before a when the comparator is positive; a
\* NaN counts as 0; the sort is stable. Merging two sorted runs: the middle
\* element of the left run goes after the elements at the front of the right
\* run that come before it, and the rest is merged on either side of it
RECURSIVE Merge(_, _, _, _)
Merge(sortBy, order, l, r) ==
  IF l = <<>> THEN r
  ELSE IF r = <<>> THEN l
  ELSE LET h == (Len(l) + 1) \div 2
           Stays(j) == LET c == Ordered(sortBy, order, l[h], r[j])
                       IN c.nan \/ c.v <= 0
           staying == {j \in 1..Len(r) : Stays(j)}
           p == IF staying = {} THEN Len(r)
                ELSE (CHOOSE j \in staying : \A k \in staying : j <= k) - 1
       IN Merge(sortBy, order, SubSeq(l, 1, h - 1), SubSeq(r, 1, p))
            \o <<l[h]>>
            \o Merge(sortBy, order, SubSeq(l, h + 1, Len(l)), SubSeq(r, p + 1, Len(r)))

RECURSIVE SortBy(_, _, _)
SortBy(sortBy, order, xs) ==
  IF Len(xs) <= 1 THEN xs
  ELSE LET h == Len(xs) \div 2
       IN Merge(sortBy, order, SortBy(sortBy, order, SubSeq(xs, 1, h)),
                SortBy(sortBy, order, SubSeq(xs, h + 1, Len(xs))))

sortModels(models, sortBy, order) == SortBy(sortBy, order, models)

RECURSIVE SumSize(_)
\* models.reduce((sum, m) => sum + m.size, 0)
SumSize(models) ==
  IF models = <<>> THEN 0
  ELSE IF Len(models) = 1 THEN models[1].size
  ELSE LET h == Len(models) \div 2
       IN SumSize(SubSeq(models, 1, h)) + SumSize(SubSeq(models, h + 1, Len(models)))

\* ------------------------------------------------------------------------
\* GET /api/ml/statistics: the computation
\* ------------------------------------------------------------------------
\* file.metadata?.keyvalues?.modelType || 'unknown'
ModelTypeOf(file) == TagOr(file, "modelType", Str_unknown)

\* mutant of ValidAccuracy: an accuracy of 0 counts
ValidAccuracy_ZeroCounts(file) == ~AccuracyOf(file).nan /\ AccuracyOf(file).v >= 0

\* accuracy > 0, which is false for NaN
ValidAccuracy(file) == ~AccuracyOf(file).nan /\ AccuracyOf(file).v > 0

\* stats.modelsByType after the forEach: each type that occurs, with the
\* number of files of that type
ModelsByType(models) ==
  [t \in {ModelTypeOf(models[i]) : i \in 1..Len(models)} |->
     Cardinality({i \in 1..Len(models) : ModelTypeOf(models[i]) = t})]

\* mutant of Bucket: the boundary 0.9 counts as high
Bucket_BoundaryIsHigh(a) ==
  IF 10 * a >= 9 * Scale THEN "high" ELSE IF 10 * a >= 7 * Scale THEN "medium" ELSE "low"

\* the bucket of an accuracy a > 0 (in units of 1/Scale)
Bucket(a) ==
  IF 10 * a > 9 * Scale THEN "high" ELSE IF 10 * a >= 7 * Scale THEN "medium" ELSE "low"

CountBucket(models, bucket) ==
  Cardinality({i \in 1..Len(models) :
                 ValidAccuracy(models[i]) /\ Bucket(AccuracyOf(models[i]).v) = bucket})

\* stats.accuracyDistribution after the forEach
AccuracyDistribution(models) ==
  [high |-> CountBucket(models, "high"), medium |-> CountBucket(models, "medium"),
   low |-> CountBucket(models, "low")]

\* mutant of Within: the windows exclude each other (an else-if chain)
Within_Exclusive(now, uploadDate, hours) ==
  /\ uploadDate.defined
  /\ now - uploadDate.v <= hours
  /\ hours = 168 => now - uploadDate.v > 24
  /\ hours = 720 => now - uploadDate.v > 168

\* hoursDiff <= hours, with hoursDiff = (now - uploadDate) in hours: false
\* when the date is invalid
Within(now, uploadDate, hours) == uploadDate.defined /\ now - uploadDate.v <= hours

CountWithin(models, now, hours) ==
  Cardinality({i \in 1..Len(models) : Within(now, Read(models[i], "timestamp"), hours)})

\* stats.recentUploads after the forEach
RecentUploads(models, now) ==
  [last24h |-> CountWithin(models, now, 24), last7d |-> CountWithin(models, now, 168),
   last30d |-> CountWithin(models, now, 720)]

RECURSIVE TotalAccuracy(_)
\* totalAccuracy after the forEach: the sum of the accuracies > 0
TotalAccuracy(models) ==
  IF models = <<>> THEN 0
  ELSE IF Len(models) = 1
    THEN (IF ValidAccuracy(models[1]) THEN AccuracyOf(models[1]).v ELSE 0)
  ELSE LET h == Len(models) \div 2
       IN TotalAccuracy(SubSeq(models, 1, h))
            + TotalAccuracy(SubSeq(models, h + 1, Len(models)))

\* validAccuracyCount after the forEach
ValidAccuracyCount(models) ==
  Cardinality({i \in 1..Len(models) : ValidAccuracy(models[i])})

RECURSIVE BestIndex_LaterWinsTies(_, _, _)
\* mutant of BestIndex: a later file replaces the best one on equal accuracy
BestIndex_LaterWinsTies(models, lo, hi) ==
  IF lo > hi THEN 0
  ELSE IF lo = hi THEN (IF ValidAccuracy(models[lo]) THEN lo ELSE 0)
  ELSE LET mid == (lo + hi) \div 2
           l == BestIndex_LaterWinsTies(models, lo, mid)
           r == BestIndex_LaterWinsTies(models, mid + 1, hi)
       IN IF r # 0 /\ (l = 0 \/ AccuracyOf(models[r]).v >= AccuracyOf(models[l]).v)
          THEN r ELSE l

RECURSIVE BestIndex(_, _, _)
\* the file bestModel is made of once the forEach has visited the files
\* lo..hi, 0 if none: a file takes the place of the best one before it only
\* if (accuracy > 0 and) accuracy > bestAccuracy
BestIndex(models, lo, hi) ==
  IF lo > hi THEN 0
  ELSE IF lo = hi THEN (IF ValidAccuracy(models[lo]) THEN lo ELSE 0)
  ELSE LET mid == (lo + hi) \div 2
           l == BestIndex(models, lo, mid)
           r == BestIndex(models, mid + 1, hi)
       IN IF r # 0 /\ (l = 0 \/ AccuracyOf(models[r]).v > AccuracyOf(models[l]).v)
          THEN r ELSE l

\* bestModel after the forEach; null when no file has an accuracy > 0
BestModel(models) ==
  LET best == BestIndex(models, 1, Len(models))
  IN IF best = 0 THEN JSNull
     ELSE LET file == models[best]
          IN [name |-> file.name, ipfsHash |-> Read(file, "ipfsHash"),
              accuracy |-> AccuracyOf(file).v, modelType |-> ModelTypeOf(file)]

\* mutant of AverageAccuracy: the division is not guarded
AverageAccuracy_Unguarded(totalAccuracy, validAccuracyCount) ==
  IF validAccuracyCount > 0
  THEN [toFixed |-> (2 * totalAccuracy + validAccuracyCount) \div (2 * validAccuracyCount)]
  ELSE [toFixed |-> "NaN"]

\* (totalAccuracy / validAccuracyCount).toFixed(4), or the number 0
AverageAccuracy(totalAccuracy, validAccuracyCount) ==
  IF validAccuracyCount > 0
  THEN [toFixed |-> (2 * totalAccuracy + validAccuracyCount) \div (2 * validAccuracyCount)]
  ELSE [number |-> 0]

\* models.sort(by timestamp, newest first)[0], reshaped; null without models
LatestModel(models) ==
  IF Len(models) > 0
  THEN LET latestFile == SortBy("timestamp", "desc", models)[1]
       IN [name |-> latestFile.name, ipfsHash |-> Read(latestFile, "ipfsHash"),
           uploadedAt |-> Read(latestFile, "timestamp"),
           modelType |-> TagOr(latestFile, "modelType", Str_unknown)]
  ELSE JSNull

\* the stats object of the response
Statistics(rows, now) ==
  LET models == SelectModels(rows, FALSE)
  IN [totalModels |-> Len(models),
      totalStorage |-> SumSize(models),
      totalStorageFormatted |-> formatBytes(SumSize(models)),
      modelsByType |-> ModelsByType(models),
      accuracyDistribution |-> AccuracyDistribution(models),
      recentUploads |-> RecentUploads(models, now),
      averageAccuracy |-> AverageAccuracy(TotalAccuracy(models), ValidAccuracyCount(models)),
      bestModel |-> BestModel(models),
      latestModel |-> LatestModel(models)]

\* ------------------------------------------------------------------------
\* The route handlers: what each answers, given its component calls' results
\* ------------------------------------------------------------------------
Json(status, body) == [status |-> status, body |-> body]

\* res.status(500).json({success: false, error: error.message})
ErrorReply(error) == Json(500, [success |-> FALSE, error |-> error.message])

BadRequest(message) == Json(400, [success |-> FALSE, error |-> message])

\* body.<field> || {}
ObjectOr(body, field) == IF field \in DOMAIN body THEN body[field] ELSE EmptyObj

\* new Date().toISOString()
IsoNow == <<"T">> \o NatStr(Now)

\* POST /api/ipfs/upload-model: the arguments of uploadToIPFS
UploadModelArgs(body) ==
  [data |-> Stringify(body.modelData), metadata |-> ObjectOr(body, "metadata")]

\* POST /api/ipfs/upload: the arguments of uploadToIPFS
UploadArgs(body) ==
  [data |-> IF IsString(body.data) THEN body.data ELSE Stringify(body.data),
   metadata |-> ObjectOr(body, "metadata")]

\* POST /api/ml/store-model: the package that is stored
ModelPackage(body) ==
  [type |-> "tft_churn_model", version |-> Str_1_0_0, timestamp |-> IsoNow,
   model_weights |-> Read(body, "model_weights"),
   model_architecture |-> Read(body, "model_architecture"),
   training_config |-> Read(body, "training_config"),
   performance_metrics |-> Read(body, "performance_metrics"),
   metadata |-> ObjectOr(body, "model_metadata")]

\* POST /api/ml/store-model: the arguments of uploadToIPFS
StoreModelArgs(body) ==
  [data |-> Stringify(ModelPackage(body)),
   metadata |->
     [modelName |-> FieldOr(ObjectOr(body, "model_metadata"), "name", Str_retail_churn_tft),
      version |-> FieldOr(ObjectOr(body, "model_metadata"), "version", Str_1_0_0),
      accuracy |-> IF "accuracy" \in DOMAIN ObjectOr(body, "performance_metrics")
                   THEN body.performance_metrics.accuracy ELSE 0,
      modelType |-> Str_tft_type,
      timestamp |-> IsoNow]]

\* the answer of the three upload routes once uploadToIPFS is over
UploadReply(path, result) ==
  IF "thrown" \in DOMAIN result THEN ErrorReply(result.thrown)
  ELSE IF path = "/api/ipfs/upload-model"
    THEN Json(200, [success |-> TRUE,
                    data |-> [ipfs |-> result.returned,
                              message |-> "Model stored successfully on IPFS"]])
  ELSE IF path = "/api/ipfs/upload"
    THEN Json(200, [success |-> TRUE, data |-> result.returned])
  ELSE Json(200, [success |-> TRUE,
                  data |-> [modelId |-> result.returned.ipfsHash,
                            ipfsHash |-> result.returned.ipfsHash,
                            ipfsUrl |-> result.returned.ipfsUrl,
                            message |-> "TFT model stored successfully on IPFS"]])

\* GET /api/ipfs/model/:hash and GET /api/ml/get-model/:hash
FetchReply(path, hash, result) ==
  IF "thrown" \in DOMAIN result THEN ErrorReply(result.thrown)
  ELSE IF path = "/api/ipfs/model/:hash"
    THEN Json(200, [success |-> TRUE,
                    data |-> [ipfsHash |-> hash, modelData |-> Parse(result.returned)]])
  ELSE Json(200, [success |-> TRUE,
                  data |-> [ipfsHash |-> hash, modelPackage |-> Parse(result.returned)]])

\* GET /api/ipfs/files
FilesReply(files) == Json(200, [success |-> TRUE, data |-> files])

\* GET /api/ipfs/test
TestReply(testResult) == Json(200, [success |-> TRUE, data |-> testResult])

\* GET /api/ml/model-details/:hash, after both component calls
ModelDetailsReply(hash, pinStatus, result) ==
  IF "thrown" \in DOMAIN result THEN ErrorReply(result.thrown)
  ELSE Json(200, [success |-> TRUE,
                  data |-> [ipfsHash |-> hash,
                            pinned |-> Read(pinStatus, "pinned"),
                            pinInfo |-> IF "data" \in DOMAIN pinStatus
                                        THEN pinStatus.data ELSE JSNull,
                            modelPackage |-> Parse(result.returned),
                            gateways |-> getGateways(hash)]])

\* parseInt of a query parameter that defaults to a number
QueryInt(query, field, default) ==
  IF field \in DOMAIN query THEN ParseInt(query[field]) ELSE Num(default)

QueryOr(query, field, default) ==
  IF field \in DOMAIN query THEN query[field] ELSE default

NumSum(a, b) == IF a.nan \/ b.nan THEN NaN ELSE Num(a.v + b.v)

\* an index argument of Array.prototype.slice, for an array of len elements
SliceIndex(x, len) ==
  IF x.nan THEN 0 ELSE IF x.v < 0 THEN Max(len + x.v, 0) ELSE Min(x.v, len)

\* Array.prototype.slice
Slice(xs, start, end) ==
  SubSeq(xs, SliceIndex(start, Len(xs)) + 1, SliceIndex(end, Len(xs)))

\* files.map(file => ...) of list-models
MapListed(files) == [k \in 1..Len(files) |-> ListedModel(files[k])]

\* files.map(file => ...) of search-models
MapFound(files) == [k \in 1..Len(files) |-> FoundModel(files[k])]

RECURSIVE SumAccuracy(_)
\* models.reduce((sum, m) => sum + m.accuracy, 0)
SumAccuracy(models) ==
  IF models = <<>> THEN Num(0)
  ELSE IF Len(models) = 1 THEN models[1].accuracy
  ELSE LET h == Len(models) \div 2
       IN NumSum(SumAccuracy(SubSeq(models, 1, h)),
                 SumAccuracy(SubSeq(models, h + 1, Len(models))))

\* [...new Set(models.map(m => m.modelType))], as the set of its members
ModelTypes(models) == {models[i].modelType : i \in 1..Len(models)}

\* the summary's averageAccuracy: a toFixed(4) string, or the number 0
ListAverage(models) ==
  IF Len(models) > 0
  THEN (IF SumAccuracy(models).nan THEN [toFixed |-> "NaN"]
        ELSE [toFixed |-> (2 * SumAccuracy(models).v + Len(models)) \div (2 * Len(models))])
  ELSE [number |-> 0]

\* GET /api/ml/list-models, after listPinnedFiles
ListModelsReply(query, pinnedFiles) ==
  IF ~pinnedFiles.success
  THEN Json(500, [success |-> FALSE, error |-> "Failed to retrieve model list",
                  details |-> pinnedFiles.error])
  ELSE LET models == MapListed(SelectModels(pinnedFiles.rows, TRUE))
           sortedModels == sortModels(models, QueryOr(query, "sortBy", "date"),
                                      QueryOr(query, "order", "desc"))
           startIndex == QueryInt(query, "offset", 0)
           endIndex == NumSum(startIndex, QueryInt(query, "limit", 50))
           paginatedModels == Slice(sortedModels, startIndex, endIndex)
       IN Json(200,
            [success |-> TRUE,
             data |->
               [models |-> paginatedModels,
                pagination |->
                  [total |-> Len(models),
                   limit |-> QueryInt(query, "limit", 50),
                   offset |-> QueryInt(query, "offset", 0),
                   returned |-> Len(paginatedModels),
                   hasMore |-> ~endIndex.nan /\ endIndex.v < Len(models)],
                summary |->
                  [totalModels |-> Len(models),
                   totalSize |-> SumSize(models),
                   totalSizeFormatted |-> formatBytes(SumSize(models)),
                   modelTypes |-> ModelTypes(models),
                   averageAccuracy |-> ListAverage(models)]]])

ToLowerChar(c) ==
  IF CharRank(c) >= 15 /\ CharRank(c) % 2 = 1 THEN Collation[CharRank(c) - 1] ELSE c

\* String.prototype.toLowerCase
toLowerCase(str) == [i \in 1..Len(str) |-> ToLowerChar(str[i])]

\* new Date(s) for a date given as a count of hours: invalid unless a number
ParseDate(str) ==
  IF str # <<>> /\ \A i \in 1..Len(str) : IsDigit(str[i])
  THEN Defined(DigitPrefix(str, 0)) ELSE Undefined

\* a >= b (or a <= b) of two dates: false when either is invalid
DateGEq(a, b) == a.defined /\ b.defined /\ a.v >= b.v

DateLEq(a, b) == a.defined /\ b.defined /\ a.v <= b.v

Supplied(query, field) == field \in DOMAIN query /\ query[field] # <<>>

\* the filters of search-models, each applied if its criterion is supplied
Matches(m, query) ==
  /\ Supplied(query, "query") =>
       LET searchQuery == toLowerCase(query.query)
       IN \/ Includes(toLowerCase(m.name), searchQuery)
          \/ Includes(toLowerCase(m.modelType), searchQuery)
          \/ Includes(m.version, searchQuery)
  /\ Supplied(query, "modelType") => m.modelType = query.modelType
  /\ Supplied(query, "minAccuracy") =>
       /\ ~m.accuracy.nan /\ ~ParseFloat(query.minAccuracy).nan
       /\ m.accuracy.v >= ParseFloat(query.minAccuracy).v
  /\ Supplied(query, "maxAccuracy") =>
       /\ ~m.accuracy.nan /\ ~ParseFloat(query.maxAccuracy).nan
       /\ m.accuracy.v <= ParseFloat(query.maxAccuracy).v
  /\ Supplied(query, "fromDate") => DateGEq(m.uploadedAt, ParseDate(query.fromDate))
  /\ Supplied(query, "toDate") => DateLEq(m.uploadedAt, ParseDate(query.toDate))

\* the chain of models.filter(...) of search-models
SelectMatches(models, query) ==
  LET Kept(m) == Matches(m, query)
  IN SelectSeq(models, Kept)

\* the limit search-models passes to listPinnedFiles: parseInt(limit) * 2
SearchListLimit(query) ==
  IF QueryInt(query, "limit", 50).nan THEN NaN ELSE Num(2 * QueryInt(query, "limit", 50).v)

\* GET /api/ml/search-models, after listPinnedFiles
SearchModelsReply(query, pinnedFiles) ==
  IF ~pinnedFiles.success
  THEN Json(500, [success |-> FALSE, error |-> "Failed to search models"])
  ELSE LET found == SelectMatches(MapFound(SelectModels(pinnedFiles.rows, FALSE)), query)
           models == Slice(found, Num(0), QueryInt(query, "limit", 50))
       IN Json(200, [success |-> TRUE,
                     data |-> [models |-> models, count |-> Len(models),
                               searchCriteria |-> query]])

\* GET /api/ml/statistics, after listPinnedFiles
StatisticsReply(pinnedFiles, now) ==
  IF ~pinnedFiles.success
  THEN Json(500, [success |-> FALSE, error |-> "Failed to retrieve statistics"])
  ELSE Json(200, [success |-> TRUE, data |-> Statistics(pinnedFiles.rows, now)])

\* ------------------------------------------------------------------------
\* Inputs
\* ------------------------------------------------------------------------
\* objects one run may store
MaxUploads == 1

\* sizes of the provider's pin list: empty, short, and around the page size
PinCounts == {n \in 0..MaxPins : n \in {0, 1, 100, 150} \/ n = MaxPins}

\* limits a caller of listPinnedFiles passes
DirectLimits == {Num(n) : n \in {0, 5, 100, 101, 200, 1000}}

Str_not_a_hash == <<"n", "o", "t", "-", "a", "-", "h", "a", "s", "h">>

\* a CID v1 of the accepted form
CidV1 == <<"b", "a", "f", "y">> \o [k \in 1..52 |-> "b"]

\* identifiers a caller asks for: stored ones, well-formed unknown ones and
\* malformed ones (wrong length, no prefix)
HashInputs ==
  {CidOf(1), CidOf(3000), CidV1, Str_not_a_hash, SubSeq(CidOf(1), 1, 45)}

\* identifiers a caller unpins: the object stored last, and ones never pinned
UnpinInputs ==
  (IF stored = <<>> THEN {} ELSE {stored[Len(stored)].hash}) \cup {CidV1, Str_not_a_hash}

\* JSON object payloads
PayloadA == [a |-> 1]

PayloadModel == [model_type |-> "tft_churn_predictor", test |-> TRUE]

\* metadata a caller attaches to an upload
MetaX == [modelName |-> <<"x">>, accuracy |-> 9500]

\* calls of uploadToIPFS by a script: a document with metadata, and (as
\* testIPFS does) a JSON text without
DirectUploads ==
  {[data |-> PayloadA, metadata |-> MetaX],
   [data |-> Stringify(PayloadModel), metadata |-> EmptyObj]}

\* how a gateway request fails
GatewayErrors == {ErrTimeout, ErrHttp(500, EmptyObj)}

\* how a request for the pin list or for the authentication test fails
PinataErrors == {ErrTimeout, ErrHttp(401, [error |-> "INVALID_CREDENTIALS"])}

\* request bodies of the upload routes
UploadModelBodies ==
  {EmptyObj, [modelData |-> PayloadA, metadata |-> MetaX]}

UploadBodies ==
  {EmptyObj, [data |-> PayloadA], [data |-> PlainText("hello"), metadata |-> MetaX]}

StoreModelBodies ==
  {EmptyObj,
   [model_weights |-> PayloadA, performance_metrics |-> [accuracy |-> 9120],
    model_metadata |-> [name |-> <<"c", "h", "u", "r", "n">>]]}

\* query strings of list-models and of search-models
ListQueries ==
  {EmptyObj,
   [limit |-> <<"5">>, sortBy |-> "name", order |-> "asc"],
   [limit |-> <<"1", "5", "0">>, offset |-> <<"1", "0", "0">>, sortBy |-> "accuracy"],
   [limit |-> <<"a", "b", "c">>, sortBy |-> "size", order |-> "asc"]}

SearchQueries ==
  {EmptyObj,
   [query |-> <<"T", "F", "T">>, limit |-> <<"5">>],
   [modelType |-> Str_tft_type, minAccuracy |-> <<"0", ".", "9">>],
   [maxAccuracy |-> <<"0", ".", "8">>, fromDate |-> <<"9", "0", "0", "0", "0">>],
   [toDate |-> <<"n", "o", "w">>, limit |-> <<"x">>]}

\* ------------------------------------------------------------------------
\* Initial state: the service is constructed and idle
\* ------------------------------------------------------------------------
Init ==
  /\ pinCount \in PinCounts
  /\ endless \in BOOLEAN
  /\ endless => pinCount = 0
  /\ stored = <<>>
  /\ route = "idle"
  /\ req = EmptyObj
  /\ lp = NoFrame
  /\ gf = NoFrame
  /\ call = NoFrame
  /\ net = <<>>
  /\ res = NoResult
  /\ http = NoFrame
  /\ fetched = <<>>

Idle == route = "idle"

\* the frame of a component call that issues one request
CallEnter(fn, args) == [pc |-> "request", fn |-> fn, args |-> args, result |-> NoResult]

\* an outbound request and its outcome
Sent(host, what) == [host |-> host, what |-> what, ok |-> TRUE, error |-> EmptyObj]

SentFailed(host, what, error) == [host |-> host, what |-> what, ok |-> FALSE, error |-> error]

PinataApi == "api.pinata.cloud"

\* ------------------------------------------------------------------------
\* Calls of the service by a script (scripts/test-ipfs.js, testIPFS)
\* ------------------------------------------------------------------------
CallListPinnedFiles ==
  /\ Idle
  /\ \E limit \in DirectLimits :
       /\ route' = "listPinnedFiles"
       /\ req' = [limit |-> limit]
       /\ lp' = ListEnter(limit, "all")
  /\ UNCHANGED <<http, fetched, pinCount, endless, stored, gf, call, net, res>>

CallGetFromIPFS ==
  /\ Idle
  /\ \E hash \in HashInputs :
       /\ route' = "getFromIPFS"
       /\ req' = [hash |-> hash]
       /\ gf' = FetchEnter(hash)
  /\ UNCHANGED <<http, fetched, pinCount, endless, stored, lp, call, net, res>>

\* the caller passes a document itself, or (as testIPFS does) a JSON text
CallUploadToIPFS ==
  /\ Idle
  /\ \E args \in DirectUploads :
       /\ route' = "uploadToIPFS"
       /\ req' = [payload |-> args.data]
       /\ call' = CallEnter("uploadToIPFS", args)
  /\ UNCHANGED <<http, fetched, pinCount, endless, stored, lp, gf, net, res>>

CallUnpinFile ==
  /\ Idle
  /\ \E hash \in UnpinInputs :
       /\ route' = "unpinFile"
       /\ req' = [hash |-> hash]
       /\ call' = CallEnter("unpinFile", [ipfsHash |-> hash])
  /\ UNCHANGED <<http, fetched, pinCount, endless, stored, lp, gf, net, res>>

\* ------------------------------------------------------------------------
\* Steps of the component calls: one outbound request and its outcome
\* ------------------------------------------------------------------------
\* GET /data/pinList?pageLimit=..&pageOffset=.. is answered
ListPageAnswered ==
  /\ lp.pc = "loop"
  /\ Len(lp.requests) < MaxPages
  /\ lp' = ListPageOk(lp, PinListResponse(lp.pageOffset, pageLimit))
  /\ net' = Append(net, Sent(PinataApi, ListRequest(lp)))
  /\ UNCHANGED <<http, fetched, pinCount, endless, stored, route, req, gf, call, res>>

\* GET /data/pinList?pageLimit=..&pageOffset=.. fails
ListPageFailed ==
  /\ lp.pc = "loop"
  /\ Len(lp.requests) < MaxPages
  /\ \E error \in PinataErrors :
       /\ lp' = ListPageThrows(lp, error)
       /\ net' = Append(net, SentFailed(PinataApi, ListRequest(lp), error))
  /\ UNCHANGED <<http, fetched, pinCount, endless, stored, route, req, gf, call, res>>

\* the stored content behind an identifier, if this run stored it
StoredContent(hash) ==
  {stored[i].content : i \in {j \in 1..Len(stored) : stored[j].hash = hash}}

\* bodies a gateway may answer with: the stored document, a JSON document of
\* its own, or a page that is not JSON
GatewayBodies(gateway, hash) ==
  StoredContent(hash) \cup {Stringify([servedBy |-> gateway]), PlainText(gateway)}

\* GET https://<gateway>/ipfs/<hash> is answered
GatewayAnswered ==
  /\ gf.pc = "try"
  /\ \E body \in GatewayBodies(NextGateway(gf), gf.ipfsHash) :
       /\ gf' = FetchOk(gf, body)
       /\ net' = Append(net, Sent(NextGateway(gf), [ipfsHash |-> gf.ipfsHash, body |-> body]))
  /\ UNCHANGED <<http, fetched, pinCount, endless, stored, route, req, lp, call, res>>

\* GET https://<gateway>/ipfs/<hash> fails
GatewayFailed ==
  /\ gf.pc = "try"
  /\ \E error \in GatewayErrors :
       /\ gf' = FetchThrows(gf, error)
       /\ net' = Append(net, SentFailed(NextGateway(gf), [ipfsHash |-> gf.ipfsHash], error))
  /\ UNCHANGED <<http, fetched, pinCount, endless, stored, route, req, lp, call, res>>

\* POST /pinning/pinFileToIPFS is answered: the object is stored and pinned
\* (payload and via: what the client asked to store and how, kept for the record)
StoreAnswered ==
  /\ call.pc = "request" /\ call.fn = "uploadToIPFS"
  /\ Len(stored) < MaxUploads
  /\ LET o == StoredObject(call.args.data, call.args.metadata)
     IN /\ stored' = Append(stored, o @@ [payload |-> req.payload, via |-> route])
        /\ call' = [call EXCEPT !.pc = "done", !.result = UploadReturns(PinResponse(o))]
        /\ net' = Append(net, Sent(PinataApi, [pinFileToIPFS |-> o.hash]))
  /\ UNCHANGED <<http, fetched, pinCount, endless, route, req, lp, gf, res>>

\* POST /pinning/pinFileToIPFS fails
StoreFailed ==
  /\ call.pc = "request" /\ call.fn = "uploadToIPFS"
  /\ \E error \in Errors :
       /\ call' = [call EXCEPT !.pc = "done", !.result = UploadThrows(error)]
       /\ net' = Append(net, SentFailed(PinataApi, [pinFileToIPFS |-> <<>>], error))
  /\ UNCHANGED <<http, fetched, pinCount, endless, stored, route, req, lp, gf, res>>

\* GET /data/pinList?hashContains=<hash> is answered; model-details goes on
\* to fetch the document
PinStatusAnswered ==
  /\ call.pc = "request" /\ call.fn = "getPinStatus"
  /\ call' = [call EXCEPT !.pc = "done",
                          !.result = PinStatusOk(call.args.ipfsHash,
                                                 HashContainsResponse(call.args.ipfsHash))]
  /\ net' = Append(net, Sent(PinataApi, [hashContains |-> call.args.ipfsHash]))
  /\ gf' = FetchEnter(call.args.ipfsHash)
  /\ UNCHANGED <<http, fetched, pinCount, endless, stored, route, req, lp, res>>

\* GET /data/pinList?hashContains=<hash> fails; model-details goes on
PinStatusFailed ==
  /\ call.pc = "request" /\ call.fn = "getPinStatus"
  /\ \E error \in PinataErrors :
       /\ call' = [call EXCEPT !.pc = "done", !.result = PinStatusThrows(error)]
       /\ net' = Append(net, SentFailed(PinataApi, [hashContains |-> call.args.ipfsHash], error))
  /\ gf' = FetchEnter(call.args.ipfsHash)
  /\ UNCHANGED <<http, fetched, pinCount, endless, stored, route, req, lp, res>>

\* the objects of this run but the one with this identifier
WithoutPin(hash) ==
  LET Other(o) == o.hash # hash
  IN SelectSeq(stored, Other)

\* DELETE /pinning/unpin/<hash> is answered: the provider had the object
\* pinned and no longer lists it
UnpinAnswered ==
  /\ call.pc = "request" /\ call.fn = "unpinFile"
  /\ \E i \in 1..Len(stored) : stored[i].hash = call.args.ipfsHash
  /\ stored' = WithoutPin(call.args.ipfsHash)
  /\ call' = UnpinOk(call, [data |-> "OK"])
  /\ net' = Append(net, Sent(PinataApi, [unpin |-> call.args.ipfsHash]))
  /\ UNCHANGED <<http, fetched, pinCount, endless, route, req, lp, gf, res>>

\* DELETE /pinning/unpin/<hash> fails
UnpinFailed ==
  /\ call.pc = "request" /\ call.fn = "unpinFile"
  /\ \E error \in PinataErrors :
       /\ call' = UnpinFailure(call, error)
       /\ net' = Append(net, SentFailed(PinataApi, [unpin |-> call.args.ipfsHash], error))
  /\ UNCHANGED <<http, fetched, pinCount, endless, stored, route, req, lp, gf, res>>

\* GET /data/testAuthentication is answered
TestAuthAnswered ==
  /\ call.pc = "request" /\ call.fn = "testConnection"
  /\ call' = [call EXCEPT !.pc = "done",
                          !.result = TestConnectionOk([data |-> [message |-> "Congratulations!"]])]
  /\ net' = Append(net, Sent(PinataApi, [testAuthentication |-> TRUE]))
  /\ UNCHANGED <<http, fetched, pinCount, endless, stored, route, req, lp, gf, res>>

\* GET /data/testAuthentication fails
TestAuthFailed ==
  /\ call.pc = "request" /\ call.fn = "testConnection"
  /\ \E error \in PinataErrors :
       /\ call' = [call EXCEPT !.pc = "done", !.result = TestConnectionThrows(error)]
       /\ net' = Append(net, SentFailed(PinataApi, [testAuthentication |-> TRUE], error))
  /\ UNCHANGED <<http, fetched, pinCount, endless, stored, route, req, lp, gf, res>>

\* ------------------------------------------------------------------------
\* The call returns to the script, or throws
\* ------------------------------------------------------------------------
ServiceCalls == {"listPinnedFiles", "getFromIPFS", "uploadToIPFS", "unpinFile"}

ReturnToCaller ==
  /\ route \in ServiceCalls
  /\ res = NoResult
  /\ \/ route = "listPinnedFiles" /\ lp.pc = "done" /\ res' = lp.result
     \/ route = "getFromIPFS" /\ gf.pc = "done" /\ res' = gf.result
     \/ route = "uploadToIPFS" /\ call.pc = "done" /\ res' = call.result
     \/ route = "unpinFile" /\ call.pc = "done" /\ res' = call.result
  /\ UNCHANGED <<http, fetched, pinCount, endless, stored, route, req, lp, gf, call, net>>

\* ------------------------------------------------------------------------
\* The route handlers, each from the request to the first await ...
\* ------------------------------------------------------------------------
GetHealth ==
  /\ Idle
  /\ route' = "/health"
  /\ req' = EmptyObj
  /\ res' = Json(200, [status |-> "healthy", service |-> "retail-ml-ipfs-service"])
  /\ UNCHANGED <<http, fetched, pinCount, endless, stored, lp, gf, call, net>>

GetInfo ==
  /\ Idle
  /\ route' = "/api/info"
  /\ req' = EmptyObj
  /\ res' = Json(200, [success |-> TRUE, data |-> [service |-> "Retail ML IPFS Service"]])
  /\ UNCHANGED <<http, fetched, pinCount, endless, stored, lp, gf, call, net>>

PostUploadModel ==
  /\ Idle
  /\ \E body \in UploadModelBodies :
       /\ route' = "/api/ipfs/upload-model"
       /\ IF "modelData" \notin DOMAIN body
          THEN /\ req' = [body |-> body]
               /\ res' = BadRequest("Model data is required")
               /\ call' = call
          ELSE /\ req' = [body |-> body, payload |-> body.modelData]
               /\ res' = res
               /\ call' = CallEnter("uploadToIPFS", UploadModelArgs(body))
  /\ UNCHANGED <<http, fetched, pinCount, endless, stored, lp, gf, net>>

PostUpload ==
  /\ Idle
  /\ \E body \in UploadBodies :
       /\ route' = "/api/ipfs/upload"
       /\ IF "data" \notin DOMAIN body
          THEN /\ req' = [body |-> body]
               /\ res' = BadRequest("Data is required")
               /\ call' = call
          ELSE /\ req' = [body |-> body, payload |-> body.data]
               /\ res' = res
               /\ call' = CallEnter("uploadToIPFS", UploadArgs(body))
  /\ UNCHANGED <<http, fetched, pinCount, endless, stored, lp, gf, net>>

PostStoreModel ==
  /\ Idle
  /\ \E body \in StoreModelBodies :
       /\ route' = "/api/ml/store-model"
       /\ req' = [body |-> body, payload |-> ModelPackage(body)]
       /\ call' = CallEnter("uploadToIPFS", StoreModelArgs(body))
  /\ UNCHANGED <<http, fetched, pinCount, endless, stored, lp, gf, net, res>>

GetModel ==
  /\ Idle
  /\ \E hash \in HashInputs :
       /\ route' = "/api/ipfs/model/:hash"
       /\ req' = [hash |-> hash]
       /\ gf' = FetchEnter(hash)
  /\ UNCHANGED <<http, fetched, pinCount, endless, stored, lp, call, net, res>>

GetTFTModel ==
  /\ Idle
  /\ \E hash \in HashInputs :
       /\ route' = "/api/ml/get-model/:hash"
       /\ req' = [hash |-> hash]
       /\ gf' = FetchEnter(hash)
  /\ UNCHANGED <<http, fetched, pinCount, endless, stored, lp, call, net, res>>

GetFiles ==
  /\ Idle
  /\ route' = "/api/ipfs/files"
  /\ req' = EmptyObj
  /\ lp' = ListEnter(Num(1000), "all")
  /\ UNCHANGED <<http, fetched, pinCount, endless, stored, gf, call, net, res>>

GetTest ==
  /\ Idle
  /\ route' = "/api/ipfs/test"
  /\ req' = EmptyObj
  /\ call' = CallEnter("testConnection", EmptyObj)
  /\ UNCHANGED <<http, fetched, pinCount, endless, stored, lp, gf, net, res>>

GetListModels ==
  /\ Idle
  /\ \E query \in ListQueries :
       /\ route' = "/api/ml/list-models"
       /\ req' = [query |-> query]
       /\ lp' = ListEnter(QueryInt(query, "limit", 50), "all")
  /\ UNCHANGED <<http, fetched, pinCount, endless, stored, gf, call, net, res>>

GetModelDetails ==
  /\ Idle
  /\ \E hash \in HashInputs :
       /\ route' = "/api/ml/model-details/:hash"
       /\ req' = [hash |-> hash]
       /\ IF ~isValidIPFSHash(hash)
          THEN res' = BadRequest("Invalid IPFS hash format") /\ call' = call
          ELSE res' = res /\ call' = CallEnter("getPinStatus", [ipfsHash |-> hash])
  /\ UNCHANGED <<http, fetched, pinCount, endless, stored, lp, gf, net>>

GetSearchModels ==
  /\ Idle
  /\ \E query \in SearchQueries :
       /\ route' = "/api/ml/search-models"
       /\ req' = [query |-> query]
       /\ lp' = ListEnter(SearchListLimit(query), "all")
  /\ UNCHANGED <<http, fetched, pinCount, endless, stored, gf, call, net, res>>

GetStatistics ==
  /\ Idle
  /\ route' = "/api/ml/statistics"
  /\ req' = EmptyObj
  /\ lp' = ListEnter(Num(1000), "all")
  /\ UNCHANGED <<http, fetched, pinCount, endless, stored, gf, call, net, res>>

\* ------------------------------------------------------------------------
\* ... and from the last await to the response
\* ------------------------------------------------------------------------
UploadRoutes == {"/api/ipfs/upload-model", "/api/ipfs/upload", "/api/ml/store-model"}

FetchRoutes == {"/api/ipfs/model/:hash", "/api/ml/get-model/:hash"}

RespondUpload ==
  /\ route \in UploadRoutes /\ res = NoResult /\ call.pc = "done"
  /\ res' = UploadReply(route, call.result)
  /\ UNCHANGED <<http, fetched, pinCount, endless, stored, route, req, lp, gf, call, net>>

RespondFetch ==
  /\ route \in FetchRoutes /\ res = NoResult /\ gf.pc = "done"
  /\ res' = FetchReply(route, req.hash, gf.result)
  /\ UNCHANGED <<http, fetched, pinCount, endless, stored, route, req, lp, gf, call, net>>

RespondFiles ==
  /\ route = "/api/ipfs/files" /\ res = NoResult /\ lp.pc = "done"
  /\ res' = FilesReply(lp.result)
  /\ UNCHANGED <<http, fetched, pinCount, endless, stored, route, req, lp, gf, call, net>>

RespondTest ==
  /\ route = "/api/ipfs/test" /\ res = NoResult /\ call.pc = "done"
  /\ res' = TestReply(call.result)
  /\ UNCHANGED <<http, fetched, pinCount, endless, stored, route, req, lp, gf, call, net>>

RespondListModels ==
  /\ route = "/api/ml/list-models" /\ res = NoResult /\ lp.pc = "done"
  /\ res' = ListModelsReply(req.query, lp.result)
  /\ UNCHANGED <<http, fetched, pinCount, endless, stored, route, req, lp, gf, call, net>>

RespondModelDetails ==
  /\ route = "/api/ml/model-details/:hash" /\ res = NoResult
  /\ call.pc = "done" /\ gf.pc = "done"
  /\ res' = ModelDetailsReply(req.hash, call.result, gf.result)
  /\ UNCHANGED <<http, fetched, pinCount, endless, stored, route, req, lp, gf, call, net>>

RespondSearchModels ==
  /\ route = "/api/ml/search-models" /\ res = NoResult /\ lp.pc = "done"
  /\ res' = SearchModelsReply(req.query, lp.result)
  /\ UNCHANGED <<http, fetched, pinCount, endless, stored, route, req, lp, gf, call, net>>

RespondStatistics ==
  /\ route = "/api/ml/statistics" /\ res = NoResult /\ lp.pc = "done"
  /\ res' = StatisticsReply(lp.result, Now)
  /\ UNCHANGED <<http, fetched, pinCount, endless, stored, route, req, lp, gf, call, net>>

\* the operation is over: the service is idle again
Finish ==
  /\ res # NoResult
  /\ route' = "idle"
  /\ req' = EmptyObj
  /\ lp' = NoFrame
  /\ gf' = NoFrame
  /\ call' = NoFrame
  /\ net' = <<>>
  /\ res' = NoResult
  /\ UNCHANGED <<http, fetched, pinCount, endless, stored>>

Next ==
  \/ CallListPinnedFiles
  \/ CallGetFromIPFS
  \/ CallUploadToIPFS
  \/ CallUnpinFile
  \/ ListPageAnswered
  \/ ListPageFailed
  \/ GatewayAnswered
  \/ GatewayFailed
  \/ StoreAnswered
  \/ StoreFailed
  \/ PinStatusAnswered
  \/ PinStatusFailed
  \/ UnpinAnswered
  \/ UnpinFailed
  \/ TestAuthAnswered
  \/ TestAuthFailed
  \/ ReturnToCaller
  \/ GetHealth
  \/ GetInfo
  \/ PostUploadModel
  \/ PostUpload
  \/ PostStoreModel
  \/ GetModel
  \/ GetTFTModel
  \/ GetFiles
  \/ GetTest
  \/ GetListModels
  \/ GetModelDetails
  \/ GetSearchModels
  \/ GetStatistics
  \/ RespondUpload
  \/ RespondFetch
  \/ RespondFiles
  \/ RespondTest
  \/ RespondListModels
  \/ RespondModelDetails
  \/ RespondSearchModels
  \/ RespondStatistics
  \/ Finish

Spec == Init /\ [][Next]_vars

\* ------------------------------------------------------------------------
\* The Express application: middleware and routes in the order they are
\* registered; a request walks the stack until a handler answers it
\* ------------------------------------------------------------------------
Use(name) == [kind |-> "use", method |-> "*", pattern |-> <<"*">>, name |-> name]

OnError(name) == [kind |-> "error", method |-> "*", pattern |-> <<"*">>, name |-> name]

Route(method, pattern) ==
  [kind |-> "route", method |-> method, pattern |-> pattern, name |-> "handler"]

Layers ==
  <<Use("cors"),
    Use("express.json"),
    Use("express.urlencoded"),
    Route("GET", <<"health">>),
    Route("POST", <<"api", "ipfs", "upload-model">>),
    Route("GET", <<"api", "ipfs", "model", ":hash">>),
    Route("POST", <<"api", "ipfs", "upload">>),
    Route("GET", <<"api", "ipfs", "files">>),
    Route("GET", <<"api", "ipfs", "test">>),
    Route("POST", <<"api", "ml", "store-model">>),
    Route("GET", <<"api", "ml", "get-model", ":hash">>),
    Route("GET", <<"api", "info">>),
    OnError("Internal server error"),
    Use("Endpoint not found"),
    Route("GET", <<"api", "ml", "list-models">>),
    Route("GET", <<"api", "ml", "model-details", ":hash">>),
    Route("GET", <<"api", "ml", "search-models">>),
    Route("GET", <<"api", "ml", "statistics">>)>>

\* middleware that calls next() instead of answering
PassesOn(layer) == layer.kind = "use" /\ layer.name # "Endpoint not found"

\* a path matches a route's pattern segment by segment; :name matches any segment
PathMatches(pattern, path) ==
  \/ pattern = <<"*">>
  \/ /\ Len(pattern) = Len(path)
     /\ \A i \in 1..Len(pattern) : pattern[i] = ":hash" \/ pattern[i] = path[i]

\* the layer is run for the request: error middleware only runs for errors
LayerMatches(layer, method, path) ==
  /\ layer.kind # "error"
  /\ layer.method \in {"*", method}
  /\ PathMatches(layer.pattern, path)

Methods == {"GET", "POST"}

\* paths of requests: every route of the application, and paths of no route
Paths ==
  {Layers[i].pattern : i \in {j \in 1..Len(Layers) : Layers[j].kind = "route"}}
    \cup {<<"nowhere">>, <<"api", "ml">>, <<"api", "ipfs", "model">>}

\* a request arrives
Arrive ==
  /\ http.pc = "idle"
  /\ \E method \in Methods, path \in Paths :
       http' = [pc |-> "routing", method |-> method, path |-> path, layer |-> 1,
                answeredBy |-> 0]
  /\ UNCHANGED <<fetched, pinCount, endless, stored, route, req, lp, gf, call, net, res>>

\* the request moves to the next layer; past the last one Express itself
\* answers (layer 0)
NextLayer(h) ==
  IF h.layer < Len(Layers) THEN [h EXCEPT !.layer = @ + 1]
  ELSE [h EXCEPT !.pc = "answered", !.answeredBy = 0]

\* the layer is not for this request
LayerSkipped ==
  /\ http.pc = "routing"
  /\ ~LayerMatches(Layers[http.layer], http.method, http.path)
  /\ http' = NextLayer(http)
  /\ UNCHANGED <<fetched, pinCount, endless, stored, route, req, lp, gf, call, net, res>>

\* middleware runs and calls next()
LayerPasses ==
  /\ http.pc = "routing"
  /\ LayerMatches(Layers[http.layer], http.method, http.path)
  /\ PassesOn(Layers[http.layer])
  /\ http' = NextLayer(http)
  /\ UNCHANGED <<fetched, pinCount, endless, stored, route, req, lp, gf, call, net, res>>

\* a handler runs and sends the response
LayerAnswers ==
  /\ http.pc = "routing"
  /\ LayerMatches(Layers[http.layer], http.method, http.path)
  /\ ~PassesOn(Layers[http.layer])
  /\ http' = [http EXCEPT !.pc = "answered", !.answeredBy = http.layer]
  /\ UNCHANGED <<fetched, pinCount, endless, stored, route, req, lp, gf, call, net, res>>

\* the response is sent: the application waits for the next request
Close ==
  /\ http.pc = "answered"
  /\ http' = [pc |-> "idle"]
  /\ UNCHANGED <<fetched, pinCount, endless, stored, route, req, lp, gf, call, net, res>>

InitApp == Init /\ pinCount = 0 /\ ~endless

NextApp == Arrive \/ LayerSkipped \/ LayerPasses \/ LayerAnswers \/ Close

SpecApp == InitApp /\ [][NextApp]_vars


\* ------------------------------------------------------------------------
\* The list-processing routes applied to a lister result of any content: the
\* rows carry the tags an uploader may have set, and some of them the fields
\* the routes read but listPinnedFiles does not set (timestamp)
\* ------------------------------------------------------------------------
\* rows of one lister result
MaxRows == 3

\* a row of a lister result with the given name and tags
SampleRow(i, name, keyvalues) ==
  [ipfs_pin_hash |-> CidOf(i), name |-> name, size |-> 1000 * i, date_pinned |-> 100000 - i,
   metadata |-> [name |-> name, keyvalues |-> keyvalues], status |-> "pinned"]

Str_model_(c) == Str_model \o <<"-", c>>

\* rows that differ in what classifies them, in their accuracy tag (ties,
\* the thresholds, zero, negative, not a number) and in their timestamp
\* (none, recent, older than each window, in the future)
SampleRows ==
  {SampleRow(1, Str_model_("a"), [type |-> Str_ml_model, accuracy |-> <<"0", ".", "9", "5">>])
     @@ [timestamp |-> 99998],
   SampleRow(2, Str_model_("b"), [accuracy |-> <<"0", ".", "9", "5">>]),
   SampleRow(3, Str_model_("c"), [accuracy |-> <<"0", ".", "9">>]) @@ [timestamp |-> 99900],
   SampleRow(4, Str_model_("d"), [accuracy |-> <<"0", ".", "7">>]) @@ [timestamp |-> 99500],
   SampleRow(5, Str_model_("e"), [accuracy |-> <<"0", ".", "5">>]) @@ [timestamp |-> 99000],
   SampleRow(6, <<"x">>, [type |-> Str_ml_model, accuracy |-> <<"0">>])
     @@ [timestamp |-> 100005],
   SampleRow(7, Str_model_("g"), [accuracy |-> <<"-", "0", ".", "5">>]),
   SampleRow(8, Str_model_("h"), [accuracy |-> <<"a", "b", "c">>]),
   SampleRow(9, <<"y">>, [modelType |-> Str_tft_type, accuracy |-> <<"1">>]),
   SampleRow(10, Str_notes, [accuracy |-> <<"0", ".", "8">>]),
   SampleRow(11, Str_retail_churn_tft, [type |-> Str_tft_type, accuracy |-> <<"0", ".", "6">>])}

\* every list of at most n of these rows
SampleLists(n) == UNION {[1..k -> SampleRows] : k \in 0..n}

\* listPinnedFiles has returned these rows
Listed(rows) ==
  [ListEnter(Num(1000), "all") EXCEPT
     !.pc = "done", !.result = [success |-> TRUE, count |-> Len(rows), rows |-> rows]]

\* the requests whose handlers process the rows
RecordRequests ==
  {[route |-> "/api/ml/statistics", req |-> EmptyObj],
   [route |-> "/api/ml/search-models", req |-> [query |-> EmptyObj]],
   [route |-> "/api/ml/search-models",
    req |-> [query |-> [query |-> <<"M", "O", "D", "E", "L", "-">>, limit |-> <<"2">>]]],
   [route |-> "/api/ml/search-models",
    req |-> [query |-> [minAccuracy |-> <<"0", ".", "7">>,
                        maxAccuracy |-> <<"0", ".", "9">>,
                        fromDate |-> <<"9", "9", "5", "0", "0">>,
                        toDate |-> <<"9", "9", "9", "9", "8">>]]],
   [route |-> "/api/ml/search-models", req |-> [query |-> [limit |-> <<"-", "1">>]]],
   [route |-> "/api/ml/list-models", req |-> [query |-> [sortBy |-> "accuracy"]]],
   [route |-> "/api/ml/list-models",
    req |-> [query |-> [sortBy |-> "accuracy", order |-> "asc"]]],
   [route |-> "/api/ml/list-models", req |-> [query |-> [sortBy |-> "name"]]],
   [route |-> "/api/ml/list-models",
    req |-> [query |-> [sortBy |-> "name", order |-> "asc"]]],
   [route |-> "/api/ml/list-models",
    req |-> [query |-> [sortBy |-> "size", order |-> "asc"]]],
   [route |-> "/api/ml/list-models",
    req |-> [query |-> [sortBy |-> "date", order |-> "asc"]]]}

\* a handler is at its await of listPinnedFiles, which returns
InitRecords ==
  /\ pinCount = 0
  /\ endless = FALSE
  /\ stored = <<>>
  /\ \E r \in RecordRequests : route = r.route /\ req = r.req
  /\ \E rows \in SampleLists(MaxRows) : lp = Listed(rows)
  /\ gf = NoFrame
  /\ call = NoFrame
  /\ net = <<>>
  /\ res = NoResult
  /\ http = NoFrame
  /\ fetched = <<>>

NextRecords == RespondStatistics \/ RespondSearchModels \/ RespondListModels

SpecRecords == InitRecords /\ [][NextRecords]_vars

\* ------------------------------------------------------------------------
\* getFromIPFS called again and again by a script, with the record of the
\* calls that are over
\* ------------------------------------------------------------------------
\* calls of getFromIPFS that are kept on record
MaxCalls == 1

\* the call returns or throws: the caller goes on
FetchCompleted ==
  /\ route = "getFromIPFS"
  /\ gf.pc = "done"
  /\ Len(fetched) < MaxCalls
  /\ fetched' = Append(fetched, [ipfsHash |-> gf.ipfsHash, tried |-> gf.tried,
                                 result |-> gf.result])
  /\ route' = "idle"
  /\ req' = EmptyObj
  /\ gf' = NoFrame
  /\ net' = <<>>
  /\ UNCHANGED <<http, pinCount, endless, stored, lp, call, res>>

InitFetch == Init /\ pinCount = 0 /\ ~endless

NextFetch == CallGetFromIPFS \/ GatewayAnswered \/ GatewayFailed \/ FetchCompleted

SpecFetch == InitFetch /\ [][NextFetch]_vars

\* ------------------------------------------------------------------------
\* listAllFiles called by a script: the pinned and the unpinned listing run
\* concurrently, their responses arrive in any order
\* ------------------------------------------------------------------------
\* unpinned records the provider may hold
MaxUnpinned == 2

\* the i-th unpinned record of the provider
UnpinnedAt(i) == BaseRow(2000 + i)

\* the response to GET /data/pinList?status=unpinned&pageLimit=n of a
\* provider that holds total unpinned records
UnpinnedResponse(total, n) ==
  [data |-> [count |-> total, rows |-> [k \in 1..Min(total, n) |-> UnpinnedAt(k)]]]

\* limits a caller of listAllFiles passes
AllLimits == {Num(1), Num(150), Num(1000)}

\* Promise.all([listPinnedFiles(limit, 'all'), listUnpinnedFiles(limit)]):
\* both calls run to their first request
CallListAllFiles ==
  /\ Idle
  /\ \E limit \in AllLimits :
       /\ route' = "listAllFiles"
       /\ req' = [limit |-> limit]
       /\ lp' = ListEnter(limit, "all")
       /\ call' = CallEnter("listUnpinnedFiles", [limit |-> limit])
  /\ UNCHANGED <<http, fetched, pinCount, endless, stored, gf, net, res>>

\* GET /data/pinList?status=unpinned&pageLimit=.. is answered, with rows or
\* with a body that has none
UnpinnedAnswered ==
  /\ call.pc = "request" /\ call.fn = "listUnpinnedFiles"
  /\ \E response \in {UnpinnedResponse(total, call.args.limit.v) : total \in 0..MaxUnpinned}
                       \cup {[data |-> [message |-> "ok"]]} :
       /\ call' = UnpinnedOk(call, response)
       /\ net' = Append(net, Sent(PinataApi, [status |-> "unpinned",
                                              pageLimit |-> call.args.limit,
                                              answer |-> response.data]))
  /\ UNCHANGED <<http, fetched, pinCount, endless, stored, route, req, lp, gf, res>>

\* GET /data/pinList?status=unpinned&pageLimit=.. fails
UnpinnedFailed ==
  /\ call.pc = "request" /\ call.fn = "listUnpinnedFiles"
  /\ \E error \in PinataErrors :
       /\ call' = UnpinnedThrows(call, error)
       /\ net' = Append(net, SentFailed(PinataApi, [status |-> "unpinned",
                                                    pageLimit |-> call.args.limit], error))
  /\ UNCHANGED <<http, fetched, pinCount, endless, stored, route, req, lp, gf, res>>

\* await Promise.all(...) resumes once both calls have returned
AllJoined ==
  /\ route = "listAllFiles"
  /\ res = NoResult
  /\ lp.pc = "done"
  /\ call.pc = "done"
  /\ res' = ListAllReturns(lp.result, call.result)
  /\ UNCHANGED <<http, fetched, pinCount, endless, stored, route, req, lp, gf, call, net>>

InitAll == Init /\ pinCount \in {0, 1, 150} /\ ~endless

NextAll ==
  \/ CallListAllFiles
  \/ ListPageAnswered
  \/ ListPageFailed
  \/ UnpinnedAnswered
  \/ UnpinnedFailed
  \/ AllJoined
  \/ Finish

SpecAll == InitAll /\ [][NextAll]_vars

\* ------------------------------------------------------------------------
\* What the requests on the wire show
\* ------------------------------------------------------------------------
\* a request for one page of the pin list
IsPageRequest(e) == e.host = PinataApi /\ "pageOffset" \in DOMAIN e.what

\* a request to one of the gateways
IsGatewayRequest(e) == \E k \in 1..Len(Gateways) : e.host = Gateways[k]

PageRequests == SelectSeq(net, IsPageRequest)

GatewayRequests == SelectSeq(net, IsGatewayRequest)

RequestsTo(host) == {i \in 1..Len(net) : net[i].host = host}

NoPageFailed == \A i \in 1..Len(PageRequests) : PageRequests[i].ok

\* the provider holds N pages, the last one short: N - 1 full pages and
\* 1..99 rows more
ShortLastPage == ~endless /\ TotalPins % pageLimit # 0

PagesHeld == TotalPins \div pageLimit + 1

\* the pages a call with this limit asks for before it stops
PagesAsked(limit) ==
  IF limit.nan THEN PagesHeld
  ELSE Min(PagesHeld, Max(1, (limit.v + pageLimit - 1) \div pageLimit))

ListReturned == lp.pc = "done" /\ NoPageFailed

C2_ThirdGatewayServes ==
  (/\ gf.pc = "done"
   /\ \E i \in RequestsTo(Gateways[1]) : ~net[i].ok
   /\ \E i \in RequestsTo(Gateways[2]) : ~net[i].ok
   /\ \E i \in RequestsTo(Gateways[3]) : net[i].ok)
    => /\ Cardinality(RequestsTo(Gateways[1])) <= 1
       /\ Cardinality(RequestsTo(Gateways[2])) <= 1
       /\ \A i \in RequestsTo(Gateways[3]) :
            net[i].ok =>
              gf.result = [returned |-> Stringify(AxiosData(net[i].what.body))]

\* the third gateway served a JSON document after two failures
C2_Witness ==
  /\ gf.pc = "done"
  /\ Len(GatewayRequests) = 3
  /\ ~GatewayRequests[1].ok /\ ~GatewayRequests[2].ok
  /\ GatewayRequests[3].ok
  /\ CanParse(GatewayRequests[3].what.body)
  /\ "returned" \in DOMAIN gf.result

\* ------------------------------------------------------------------------
\* C4
\* ------------------------------------------------------------------------
\* C4: the gateways are requested in their fixed order, gateway k+1 only
\* after the request to gateway k failed, none after a success; the call
\* throws 'Failed to fetch from IPFS: <last error>' only after all three
\* gateways failed, each requested exactly once
C4_FixedOrderFallback ==
  gf.pc # "idle"
    => /\ Len(GatewayRequests) <= Len(Gateways)
       /\ \A i \in 1..Len(GatewayRequests) :
            /\ GatewayRequests[i].host = Gateways[i]
            /\ i < Len(GatewayRequests) => ~GatewayRequests[i].ok
       /\ gf.pc = "try"
            => /\ Len(GatewayRequests) < Len(Gateways)
               /\ \A i \in 1..Len(GatewayRequests) : ~GatewayRequests[i].ok
       /\ (gf.pc = "done" /\ "returned" \in DOMAIN gf.result)
            => /\ Len(GatewayRequests) >= 1
               /\ GatewayRequests[Len(GatewayRequests)].ok
       /\ (gf.pc = "done" /\ "thrown" \in DOMAIN gf.result)
            => /\ Len(GatewayRequests) = Len(Gateways)
               /\ \A i \in 1..Len(Gateways) :
                    /\ ~GatewayRequests[i].ok
                    /\ Cardinality(RequestsTo(Gateways[i])) = 1
               /\ gf.result.thrown.message =
                    <<"Failed to fetch from IPFS: ",
                      GatewayRequests[Len(Gateways)].error.message>>

\* all three gateways failed and the call threw
C4_Witness ==
  /\ gf.pc = "done"
  /\ "thrown" \in DOMAIN gf.result
  /\ Len(GatewayRequests) = 3

\* ------------------------------------------------------------------------
\* C5
\* ------------------------------------------------------------------------
\* C5: nothing bounds the number of page requests: against a provider that
\* answers every page with 100 rows, a call whose limit is NaN (parseInt of
\* a non-numeric query value) has not returned after any number of answered
\* pages, and holds 100 rows for each of them
C5_NoPageCap ==
  (/\ lp.pc # "idle"
   /\ endless
   /\ lp.limit.nan
   /\ NoPageFailed)
    => /\ lp.pc = "loop"
       /\ Len(lp.allFiles) = pageLimit * Len(lp.requests)
       /\ lp.pageOffset = pageLimit * Len(lp.requests)

\* the loop is still running after MaxPages full pages
C5_Witness ==
  /\ lp.pc = "loop"
  /\ endless
  /\ lp.limit.nan
  /\ NoPageFailed
  /\ Len(lp.requests) = MaxPages

\* ------------------------------------------------------------------------
\* C6
\* ------------------------------------------------------------------------
\* C6: when a page request fails, listPinnedFiles makes no further page
\* request and returns (does not throw) a failure: success false, the
\* provider's error, and no rows
C6_PageFailureIsReturned ==
  \A i \in 1..Len(net) :
    (IsPageRequest(net[i]) /\ ~net[i].ok)
      => /\ i = Len(net)
         /\ lp.pc = "done"
         /\ lp.result.success = FALSE
         /\ lp.result.error = ErrorText(net[i].error)
         /\ DOMAIN lp.result \cap {"rows", "count", "thrown"} = {}
         /\ (route = "listPinnedFiles" /\ res # NoResult) => res = lp.result

\* the page request that failed came after a page that was answered
C6_Witness ==
  /\ lp.pc = "done"
  /\ Len(net) >= 2
  /\ IsPageRequest(net[Len(net)])
  /\ ~net[Len(net)].ok
  /\ lp.result.success = FALSE
  /\ route = "listPinnedFiles" /\ res = lp.result

\* ------------------------------------------------------------------------
\* C3
\* ------------------------------------------------------------------------
\* the route layers that are registered for a request
RoutesFor(method, path) ==
  {i \in 1..Len(Layers) :
     Layers[i].kind = "route" /\ LayerMatches(Layers[i], method, path)}

\* C3 as stated: a request is answered by the handler of the route that is
\* registered for it (list-models, search-models, statistics and
\* model-details included), and by the 'Endpoint not found' handler only
\* when no route is registered for it
C3_AnsweredByItsRoute ==
  http.pc = "answered"
    => IF RoutesFor(http.method, http.path) = {}
       THEN /\ http.answeredBy \in 1..Len(Layers)
            /\ Layers[http.answeredBy].name = "Endpoint not found"
       ELSE http.answeredBy \in RoutesFor(http.method, http.path)

\* ------------------------------------------------------------------------
\* C7
\* ------------------------------------------------------------------------
HashRoutes ==
  {"/api/ipfs/model/:hash", "/api/ml/get-model/:hash", "/api/ml/model-details/:hash"}

\* C7 as stated: on each of the three routes that take an identifier, an
\* identifier of neither form is answered with status 400 and no outbound
\* request is made for it
C7_InvalidHashRejectedFirst ==
  (route \in HashRoutes /\ ~isValidIPFSHash(req.hash))
    => /\ net = <<>>
       /\ res # NoResult => res.status = 400

\* ------------------------------------------------------------------------
\* C8
\* ------------------------------------------------------------------------
RoundTripUploads == {"uploadToIPFS", "/api/ipfs/upload", "/api/ipfs/upload-model"}

\* C8 as stated: when a document D was uploaded by uploadToIPFS, by
\* /api/ipfs/upload or by /api/ipfs/upload-model, and getFromIPFS of the
\* identifier returns the stored content, the returned text parses to a
\* document whose data field equals D
C8_RoundTrip ==
  \A i \in 1..Len(stored) :
    (/\ stored[i].via \in RoundTripUploads
     /\ gf.pc = "done"
     /\ gf.ipfsHash = stored[i].hash
     /\ "returned" \in DOMAIN gf.result
     /\ GatewayRequests[Len(GatewayRequests)].what.body = stored[i].content)
      => Parse(gf.result.returned).data = stored[i].payload

\* ------------------------------------------------------------------------
\* C9
\* ------------------------------------------------------------------------
\* a component call of the running handler threw or returned success false
ComponentFailed ==
  \/ lp.pc = "done" /\ ~lp.result.success
  \/ gf.pc = "done" /\ "thrown" \in DOMAIN gf.result
  \/ /\ call.pc = "done"
     /\ \/ "thrown" \in DOMAIN call.result
        \/ "success" \in DOMAIN call.result /\ ~call.result.success

\* C9 as stated: a route whose component call failed answers with the
\* failure envelope (success false, status 500, or 400 for validation),
\* never with status 200 or success true
C9_FailureEnvelope ==
  (route \notin ServiceCalls \cup {"idle"} /\ res # NoResult /\ ComponentFailed)
    => /\ res.status \in {400, 500}
       /\ res.body.success = FALSE

\* ------------------------------------------------------------------------
\* C10
\* ------------------------------------------------------------------------
EmptyProvider == ~endless /\ TotalPins = 0

\* C10: against a provider with no pins, listPinnedFiles returns success
\* with count 0 and no rows after exactly one page request, and the
\* statistics computed from that result have totalModels 0, averageAccuracy
\* the number 0, bestModel and latestModel null, and every distribution and
\* recency counter 0
C10_EmptyProvider ==
  /\ (ListReturned /\ EmptyProvider)
       => /\ lp.result = [success |-> TRUE, count |-> 0, rows |-> <<>>]
          /\ Len(lp.requests) = 1
          /\ Len(PageRequests) = 1
  /\ (route = "/api/ml/statistics" /\ res # NoResult /\ ListReturned /\ EmptyProvider)
       => /\ res.status = 200
          /\ res.body.success
          /\ res.body.data.totalModels = 0
          /\ res.body.data.averageAccuracy = [number |-> 0]
          /\ res.body.data.bestModel = JSNull
          /\ res.body.data.latestModel = JSNull
          /\ res.body.data.modelsByType = EmptyObj
          /\ res.body.data.accuracyDistribution = [high |-> 0, medium |-> 0, low |-> 0]
          /\ res.body.data.recentUploads = [last24h |-> 0, last7d |-> 0, last30d |-> 0]

\* the statistics of an empty provider were computed after one page request
C10_Witness ==
  /\ route = "/api/ml/statistics"
  /\ res # NoResult
  /\ ListReturned /\ EmptyProvider
  /\ Len(PageRequests) = 1
  /\ res.body.data.totalModels = 0

\* ------------------------------------------------------------------------
\* C11
\* ------------------------------------------------------------------------
\* the statistics handler has answered with the statistics
StatsAnswered == route = "/api/ml/statistics" /\ res # NoResult /\ res.status = 200

\* the rows the statistics handler iterates over
StatsModels == SelectModels(lp.result.rows, FALSE)

\* an accuracy in (0, 1]
InUnit(a) == ~a.nan /\ 0 < a.v /\ a.v <= Scale

\* C11: the last record of the iteration, when its accuracy a lies in
\* (0, 1], increments exactly one counter of the accuracy distribution: high
\* if a > 0.9, medium if 0.7 <= a <= 0.9, low if a < 0.7; when a is 0 or
\* negative it increments none; without records all three are 0
C11_OneBucketPerAccuracy ==
  StatsAnswered =>
    LET n == Len(StatsModels)
        after == res.body.data.accuracyDistribution
    IN IF n = 0 THEN after = [high |-> 0, medium |-> 0, low |-> 0]
       ELSE LET a == AccuracyOf(StatsModels[n])
                before == AccuracyDistribution(SubSeq(StatsModels, 1, n - 1))
            IN /\ (InUnit(a) /\ 10 * a.v > 9 * Scale)
                    => after = [before EXCEPT !.high = @ + 1]
               /\ (InUnit(a) /\ 10 * a.v >= 7 * Scale /\ 10 * a.v <= 9 * Scale)
                    => after = [before EXCEPT !.medium = @ + 1]
               /\ (InUnit(a) /\ 10 * a.v < 7 * Scale)
                    => after = [before EXCEPT !.low = @ + 1]
               /\ (~a.nan /\ a.v <= 0) => after = before

\* records at both boundaries and a negative one: two in medium, none else
C11_Witness ==
  /\ StatsAnswered
  /\ Len(StatsModels) = 3
  /\ AccuracyOf(StatsModels[1]) = Num(9000)
  /\ AccuracyOf(StatsModels[2]) = Num(0 - 5000)
  /\ AccuracyOf(StatsModels[3]) = Num(7000)
  /\ res.body.data.accuracyDistribution = [high |-> 0, medium |-> 2, low |-> 0]

\* ------------------------------------------------------------------------
\* C12
\* ------------------------------------------------------------------------
\* C12: the recency counters satisfy last24h <= last7d <= last30d <=
\* totalModels, and a record that raises the counter of a narrower window
\* raises that of each wider one, also when its timestamp is in the future
\* or missing
C12_WindowsAreCumulative ==
  StatsAnswered =>
    LET n == Len(StatsModels)
        after == res.body.data.recentUploads
    IN /\ after.last24h <= after.last7d
       /\ after.last7d <= after.last30d
       /\ after.last30d <= res.body.data.totalModels
       /\ res.body.data.totalModels = n
       /\ n > 0 =>
            LET before == RecentUploads(SubSeq(StatsModels, 1, n - 1), Now)
            IN /\ after.last24h - before.last24h \in {0, 1}
               /\ after.last7d - before.last7d \in {0, 1}
               /\ after.last30d - before.last30d \in {0, 1}
               /\ after.last24h - before.last24h <= after.last7d - before.last7d
               /\ after.last7d - before.last7d <= after.last30d - before.last30d

\* one record in the future, one of four days ago and one without timestamp
C12_Witness ==
  /\ StatsAnswered
  /\ res.body.data.totalModels = 3
  /\ res.body.data.recentUploads = [last24h |-> 1, last7d |-> 2, last30d |-> 2]
  /\ \E k \in 1..3 : Read(StatsModels[k], "timestamp") = Defined(100005)
  /\ \E k \in 1..3 : Read(StatsModels[k], "timestamp") = Undefined

\* ------------------------------------------------------------------------
\* C13
\* ------------------------------------------------------------------------
\* the records with an accuracy > 0, by their place in the iteration
WithAccuracy == {k \in 1..Len(StatsModels) : ValidAccuracy(StatsModels[k])}

\* C13: bestModel is made of the first record, in iteration order, whose
\* accuracy is the maximum over the records with accuracy > 0 (the first
\* occurrence wins on ties), and is null when no record has accuracy > 0
C13_FirstOfTheBest ==
  StatsAnswered =>
    IF WithAccuracy = {} THEN res.body.data.bestModel = JSNull
    ELSE \E i \in WithAccuracy :
           /\ \A j \in WithAccuracy :
                AccuracyOf(StatsModels[j]).v <= AccuracyOf(StatsModels[i]).v
           /\ \A j \in WithAccuracy :
                j < i => AccuracyOf(StatsModels[j]).v < AccuracyOf(StatsModels[i]).v
           /\ res.body.data.bestModel # JSNull
           /\ res.body.data.bestModel.name = StatsModels[i].name
           /\ res.body.data.bestModel.accuracy = AccuracyOf(StatsModels[i]).v
           /\ res.body.data.bestModel.modelType = ModelTypeOf(StatsModels[i])

\* two differently named records tie for the best accuracy after a lower one
C13_Witness ==
  /\ StatsAnswered
  /\ Len(StatsModels) = 3
  /\ AccuracyOf(StatsModels[1]) = Num(5000)
  /\ AccuracyOf(StatsModels[2]) = Num(9500)
  /\ AccuracyOf(StatsModels[3]) = Num(9500)
  /\ StatsModels[2].name # StatsModels[3].name
  /\ res.body.data.bestModel.name = StatsModels[2].name

\* ------------------------------------------------------------------------
\* C14
\* ------------------------------------------------------------------------
\* the largest pinned timestamp among the classified rows
LatestPinned ==
  CHOOSE t \in {StatsModels[k].date_pinned : k \in 1..Len(StatsModels)} :
    \A k \in 1..Len(StatsModels) : StatsModels[k].date_pinned <= t

\* C14 as stated: when the lister returned at least one classified row,
\* latestModel is made of a row whose pinned timestamp is the largest among
\* them, and its uploadedAt is that timestamp
C14_LatestIsNewestPinned ==
  (StatsAnswered /\ Len(StatsModels) > 0)
    => /\ res.body.data.latestModel # JSNull
       /\ \E k \in 1..Len(StatsModels) :
            /\ StatsModels[k].date_pinned = LatestPinned
            /\ StatsModels[k].name = res.body.data.latestModel.name
       /\ res.body.data.latestModel.uploadedAt = Defined(LatestPinned)

\* ------------------------------------------------------------------------
\* C15
\* ------------------------------------------------------------------------
\* the list-models handler has answered with the models
ListModelsAnswered == route = "/api/ml/list-models" /\ res # NoResult /\ res.status = 200

\* the models the list-models handler passes to sortModels
ListedModels == MapListed(SelectModels(lp.result.rows, TRUE))

\* no two models of the list have the same accuracy
DistinctAccuracy(models) ==
  \A i, j \in 1..Len(models) : i # j => models[i].accuracy # models[j].accuracy

SearchAnswered == route = "/api/ml/search-models" /\ res # NoResult /\ res.status = 200

\* the key-value of a row, "" when the row has none of that key
KeyValue(row, key) ==
  IF "keyvalues" \in DOMAIN row.metadata /\ key \in DOMAIN row.metadata.keyvalues
  THEN row.metadata.keyvalues[key] ELSE <<>>

\* the three conditions of the classification
TaggedOrNamedModel(row) ==
  \/ KeyValue(row, "type") = <<"m", "l", "-", "m", "o", "d", "e", "l">>
  \/ KeyValue(row, "modelType") = Str_tft_type
  \/ \E i \in 1..(Len(row.name) - 4) : SubSeq(row.name, i, i + 4) = <<"m", "o", "d", "e", "l">>

NamedTft(row) == \E i \in 1..(Len(row.name) - 2) : SubSeq(row.name, i, i + 2) = <<"t", "f", "t">>

TaggedNamedOrTft(row) == TaggedOrNamedModel(row) \/ NamedTft(row)

\* C16: statistics and search-models keep a row iff its type is 'ml-model',
\* or its modelType is 'temporal_fusion_transformer', or its name contains
\* 'model'; list-models keeps these rows and those whose name contains
\* 'tft'; so the three agree on the rows whose name does not contain 'tft'
\* (search-models asked without criteria, so that it returns what it keeps)
C16_Classification ==
  /\ StatsAnswered =>
       LET kept == SelectSeq(lp.result.rows, TaggedOrNamedModel)
       IN /\ res.body.data.totalModels = Len(kept)
          /\ res.body.data.totalStorage = SumSize(kept)
  /\ (SearchAnswered /\ req.query = EmptyObj) =>
       LET kept == SelectSeq(lp.result.rows, TaggedOrNamedModel)
       IN /\ Len(res.body.data.models) = Len(kept)
          /\ \A k \in 1..Len(kept) : res.body.data.models[k].name = kept[k].name
  /\ ListModelsAnswered =>
       LET kept == SelectSeq(lp.result.rows, TaggedNamedOrTft)
           models == res.body.data.models
       IN /\ res.body.data.pagination.total = Len(kept)
          /\ Len(models) = Len(kept)
          /\ \A k \in 1..Len(kept) :
               Cardinality({i \in 1..Len(kept) : kept[i].name = kept[k].name})
                 = Cardinality({i \in 1..Len(models) : models[i].name = kept[k].name})
          /\ \A k \in 1..Len(lp.result.rows) :
               ~NamedTft(lp.result.rows[k])
                 => (TaggedNamedOrTft(lp.result.rows[k])
                       <=> TaggedOrNamedModel(lp.result.rows[k]))

\* list-models kept a row for its name 'retail-churn-tft' and one for its
\* modelType alone, and dropped notes.txt
C16_Witness ==
  /\ ListModelsAnswered
  /\ Len(lp.result.rows) = 3
  /\ lp.result.rows[1].name = Str_retail_churn_tft
  /\ lp.result.rows[2].name = Str_notes
  /\ lp.result.rows[3].name = <<"y">>
  /\ res.body.data.pagination.total = 2

\* ------------------------------------------------------------------------
\* C17
\* ------------------------------------------------------------------------
\* the store requests of the operation in progress
IsStoreRequest(e) == e.host = PinataApi /\ "pinFileToIPFS" \in DOMAIN e.what

StoreRequests == SelectSeq(net, IsStoreRequest)

\* the status of the response an error carries, 0 if it carries none
StatusOf(error) == IF "response" \in DOMAIN error THEN error.response.status ELSE 0

\* the cause the claim names for an error
CauseOf(error) ==
  IF StatusOf(error) = 401
    THEN "Invalid Pinata API credentials. Check your PINATA_JWT token."
  ELSE IF StatusOf(error) = 403
    THEN "Pinata API key does not have required permissions."
  ELSE IF error.code = "ENOTFOUND"
    THEN "Network error: Cannot reach Pinata API. Check your internet connection."
  ELSE IF "response" \in DOMAIN error /\ "error" \in DOMAIN error.response.data
    THEN error.response.data.error
  ELSE error.message

\* C17: an upload whose store request failed returns no result: it throws
\* one error 'IPFS upload failed: <cause>', the cause being the credential
\* message for status 401, the permission message for 403, the connectivity
\* message for code ENOTFOUND without such a status, else the provider's
\* error field if present, else the message of the underlying error; and an
\* upload throws only when its store request failed
C17_UploadFailureIsThrown ==
  (call.pc = "done" /\ call.fn = "uploadToIPFS")
    => /\ Len(StoreRequests) = 1
       /\ ~StoreRequests[1].ok
            => /\ DOMAIN call.result = {"thrown"}
               /\ call.result.thrown.message =
                    <<"IPFS upload failed: ", CauseOf(StoreRequests[1].error)>>
               /\ (route = "uploadToIPFS" /\ res # NoResult) => res = call.result
       /\ StoreRequests[1].ok => DOMAIN call.result = {"returned"}

\* an upload called directly threw the connectivity error
C17_Witness ==
  /\ route = "uploadToIPFS"
  /\ call.pc = "done"
  /\ Len(StoreRequests) = 1
  /\ StoreRequests[1].error = ErrUnreachable
  /\ res = [thrown |-> [message |->
       <<"IPFS upload failed: ",
         "Network error: Cannot reach Pinata API. Check your internet connection.">>]]

\* ------------------------------------------------------------------------
\* C18
\* ------------------------------------------------------------------------
\* the number of rows the provider holds on the pages 1..i of 100
RowsThroughPage(i) == IF endless THEN 100 * i ELSE Min(TotalPins, 100 * i)

\* the number of rows on the i-th page
RowsOnPage(i) == RowsThroughPage(i) - RowsThroughPage(i - 1)

\* the i-th page is empty, or shorter than 100 rows, or brings the
\* accumulator to at least the limit
EndsListing(i) ==
  \/ RowsOnPage(i) = 0
  \/ RowsOnPage(i) < 100
  \/ ~lp.limit.nan /\ RowsThroughPage(i) >= lp.limit.v

\* page requests answered so far, up to the first that failed
PagesAnswered ==
  Cardinality({i \in 1..Len(PageRequests) : \A j \in 1..i : PageRequests[j].ok})

\* C18: listPinnedFiles requests the pages at the offsets 0, 100, 200, ...
\* with page size 100 and holds the rows of the answered pages in arrival
\* order (while it is running: the first and the last row of each page are
\* in their place); no page request follows a page that is empty, shorter
\* than 100 rows or that brings the accumulator to at least the limit, and
\* after an answered page that is none of these the listing has not stopped
C18_PagingStopsOnItsConditions ==
  lp.pc # "idle"
    => /\ \A i \in 1..Len(PageRequests) :
            /\ PageRequests[i].what.pageOffset = (i - 1) * 100
            /\ PageRequests[i].what.pageLimit = 100
       /\ Len(lp.requests) = Len(PageRequests)
       /\ Len(lp.allFiles) = RowsThroughPage(PagesAnswered)
       /\ lp.pc = "done" => \A k \in 1..Len(lp.allFiles) : lp.allFiles[k] = PinAt(k)
       /\ lp.pc = "loop" =>
            \A i \in 1..PagesAnswered :
              \A k \in {RowsThroughPage(i - 1) + 1, RowsThroughPage(i)} :
                lp.allFiles[k] = PinAt(k)
       /\ \A i \in 1..(Len(PageRequests) - 1) :
            PageRequests[i].ok /\ ~EndsListing(i)
       /\ (Len(PageRequests) > 0 /\ PageRequests[Len(PageRequests)].ok)
            => (lp.pc = "done" <=> EndsListing(Len(PageRequests)))
       /\ Len(PageRequests) = 0 => lp.pc = "loop"

\* the listing stopped after two full pages because the limit was reached
C18_Witness ==
  /\ lp.pc = "done"
  /\ lp.limit = Num(200)
  /\ Len(PageRequests) = 2
  /\ PageRequests[2].what.pageOffset = 100
  /\ RowsOnPage(2) = 100
  /\ Len(lp.allFiles) = 200
  /\ lp.result.count = 200

\* ------------------------------------------------------------------------
\* C19
\* ------------------------------------------------------------------------
\* C19: every getFromIPFS call, also one for an identifier that a call on
\* record fetched successfully, requests the gateways from the primary one
\* on, in their order, each after the failure of the one before; it is over
\* only after at least one request, and what it returns is what its own last
\* request was answered with, whatever the calls on record tried or returned
C19_NoCache ==
  route = "getFromIPFS"
    => /\ gf.pc = "done" => Len(GatewayRequests) >= 1
       /\ Len(gf.tried) = Len(GatewayRequests)
       /\ \A i \in 1..Len(GatewayRequests) :
            /\ GatewayRequests[i].host = Gateways[i]
            /\ GatewayRequests[i].what.ipfsHash = gf.ipfsHash
            /\ i < Len(GatewayRequests) => ~GatewayRequests[i].ok
       /\ (gf.pc = "done" /\ "returned" \in DOMAIN gf.result)
            => /\ GatewayRequests[Len(GatewayRequests)].ok
               /\ gf.result.returned =
                    Stringify(AxiosData(GatewayRequests[Len(GatewayRequests)].what.body))
       /\ (gf.pc = "done" /\ "thrown" \in DOMAIN gf.result)
            => /\ Len(GatewayRequests) = Len(Gateways)
               /\ ~GatewayRequests[Len(Gateways)].ok
       /\ gf.pc = "try"
            => \A i \in 1..Len(GatewayRequests) : ~GatewayRequests[i].ok

\* a second call for an identifier the first call got from the primary
\* gateway: the primary gateway is asked again, fails, and the second one
\* serves another document
C19_Witness ==
  /\ route = "getFromIPFS"
  /\ gf.pc = "done"
  /\ FetchedBefore(gf.ipfsHash) # {}
  /\ Len(fetched[1].tried) = 1
  /\ Len(GatewayRequests) = 2
  /\ GatewayRequests[1].host = Gateways[1]
  /\ "returned" \in DOMAIN gf.result
  /\ gf.result # fetched[1].result

\* ------------------------------------------------------------------------
\* C20
\* ------------------------------------------------------------------------
\* the requests of the operation in progress that ask for this
RequestsFor(what) == {i \in 1..Len(net) : net[i].host = PinataApi /\ what \in DOMAIN net[i].what}

\* C20: an uploadToIPFS call that is over has issued exactly one store
\* request, whether it succeeded or failed; no page of the pin list is
\* requested twice, and the pin-status request and the unpin request are
\* issued at most once; a request that failed is followed by another
\* request only when that one is a gateway request of getFromIPFS
C20_NothingElseIsRetried ==
  /\ (call.pc # "idle" /\ call.fn = "uploadToIPFS")
       => Len(StoreRequests) = (IF call.pc = "done" THEN 1 ELSE 0)
  /\ (call.pc # "idle" /\ call.fn = "unpinFile")
       => Cardinality(RequestsFor("unpin")) = (IF call.pc = "done" THEN 1 ELSE 0)
  /\ (call.pc # "idle" /\ call.fn = "getPinStatus")
       => Cardinality(RequestsFor("hashContains")) = (IF call.pc = "done" THEN 1 ELSE 0)
  /\ \A i, j \in RequestsFor("pageOffset") :
       i # j => net[i].what.pageOffset # net[j].what.pageOffset
  /\ Cardinality(RequestsFor("pinFileToIPFS")) <= 1
  /\ Cardinality(RequestsFor("unpin")) <= 1
  /\ Cardinality(RequestsFor("hashContains")) <= 1
  /\ \A i \in 1..(Len(net) - 1) :
       ~net[i].ok => /\ IsGatewayRequest(net[i + 1])
                     /\ gf.pc # "idle"

\* an unpin request failed and unpinFile returned the failure
C20_Witness ==
  /\ route = "unpinFile"
  /\ call.pc = "done"
  /\ Len(net) = 1
  /\ ~net[1].ok
  /\ "unpin" \in DOMAIN net[1].what
  /\ res # NoResult
  /\ res.success = FALSE

\* ------------------------------------------------------------------------
\* C21
\* ------------------------------------------------------------------------
\* the request for the unpinned records, once it is over
UnpinnedRequests == {i \in 1..Len(net) : "status" \in DOMAIN net[i].what /\ "pageLimit" \in DOMAIN net[i].what /\ "pageOffset" \notin DOMAIN net[i].what}

\* the rows the pinned listing's pages brought, as listPinnedFiles returns
\* them, when none of its requests failed
PinnedPart ==
  IF NoPageFailed
  THEN [k \in 1..RowsThroughPage(PagesAnswered) |-> ListedRow(PinAt(k))]
  ELSE <<>>

\* the rows the provider answered the unpinned request with, as
\* listUnpinnedFiles returns them
UnpinnedPart ==
  LET e == net[CHOOSE i \in UnpinnedRequests : TRUE]
  IN IF e.ok /\ "rows" \in DOMAIN e.what.answer
     THEN [k \in 1..Len(e.what.answer.rows) |-> UnpinnedRow(e.what.answer.rows[k])]
     ELSE <<>>

\* C21: listAllFiles has a result only when both listings have returned,
\* each having made its requests, and whatever the order in which the
\* responses arrived the result's rows are the pinned rows followed by the
\* unpinned rows and its count is pinnedCount + unpinnedCount
C21_JoinedInFixedOrder ==
  route = "listAllFiles"
    => /\ lp.pc # "idle" /\ call.pc # "idle"
       /\ res # NoResult
            => /\ lp.pc = "done" /\ call.pc = "done"
               /\ Cardinality(UnpinnedRequests) = 1
               /\ res.rows = PinnedPart \o UnpinnedPart
               /\ res.pinnedCount = Len(PinnedPart)
               /\ res.unpinnedCount = Len(UnpinnedPart)
               /\ res.count = res.pinnedCount + res.unpinnedCount
               /\ res.count = Len(res.rows)

\* the unpinned listing was answered with rows between the two pages of the
\* pinned listing, and listAllFiles has returned
C21_Witness ==
  /\ route = "listAllFiles"
  /\ res # NoResult
  /\ Len(net) = 3
  /\ UnpinnedRequests = {2}
  /\ \A i \in 1..3 : net[i].ok
  /\ res.pinnedCount = 150
  /\ res.unpinnedCount = 2

\* ------------------------------------------------------------------------
\* C29
\* ------------------------------------------------------------------------
\* the requests of the pinned listing, of the unpinned listing: one failed
PinnedFailed == \E i \in 1..Len(PageRequests) : ~PageRequests[i].ok

UnpinnedListFailed ==
  \E i \in UnpinnedRequests : ~net[i].ok \/ "rows" \notin DOMAIN net[i].what.answer

\* C29: whatever failed, the result of listAllFiles has success = true and
\* neither error nor message; a listing one of whose requests failed (or
\* was answered without rows) contributes no rows and the count 0, and the
\* rows are those the listings that succeeded returned
C29_FailuresAreSwallowed ==
  (route = "listAllFiles" /\ res # NoResult)
    => /\ res.success = TRUE
       /\ "error" \notin DOMAIN res
       /\ "message" \notin DOMAIN res
       /\ PinnedFailed => (~lp.result.success /\ res.pinnedCount = 0)
       /\ UnpinnedListFailed => (~call.result.success /\ res.unpinnedCount = 0)
       /\ (PinnedFailed /\ UnpinnedListFailed) => (res.rows = <<>> /\ res.count = 0)
       /\ (PinnedFailed /\ ~UnpinnedListFailed)
            => (res.rows = call.result.rows /\ res.count = Len(call.result.rows))
       /\ (~PinnedFailed /\ UnpinnedListFailed)
            => (res.rows = lp.result.rows /\ res.count = lp.result.count)

\* the second page of the pinned listing failed after the unpinned listing
\* had brought two rows, and listAllFiles has returned those two
C29_Witness ==
  /\ route = "listAllFiles"
  /\ res # NoResult
  /\ Len(PageRequests) = 2
  /\ ~PageRequests[2].ok
  /\ ~UnpinnedListFailed
  /\ res.count = 2

\* both listings failed and listAllFiles has returned
C29_WitnessBoth ==
  /\ route = "listAllFiles"
  /\ res # NoResult
  /\ PinnedFailed
  /\ UnpinnedListFailed

\* ------------------------------------------------------------------------
\* C22
\* ------------------------------------------------------------------------
\* the records of the statistics whose accuracy tag parses to a number > 0
PositiveAccuracy ==
  {i \in 1..Len(StatsModels) :
     LET a == ParseFloat(KeyValue(StatsModels[i], "accuracy"))
     IN KeyValue(StatsModels[i], "accuracy") # <<>> /\ ~a.nan /\ a.v > 0}

RECURSIVE SumOver(_, _)
\* the sum of f over the set S
SumOver(f, S) ==
  IF S = {} THEN 0
  ELSE LET x == CHOOSE y \in S : TRUE
       IN f[x] + SumOver(f, S \ {x})

\* C22: totalModels counts every record and so do the per-type counts
\* together; high + medium + low is the number of records with accuracy > 0;
\* averageAccuracy is the mean of the accuracies of exactly these records,
\* rounded to four decimals, or the number 0 when there are none
C22_OnlyPositiveAccuracyCounts ==
  StatsAnswered =>
    LET stats == res.body.data
        n == Len(StatsModels)
        k == Cardinality(PositiveAccuracy)
        total == SumOver([i \in 1..n |->
                            ParseFloat(KeyValue(StatsModels[i], "accuracy")).v],
                         PositiveAccuracy)
        dist == stats.accuracyDistribution
    IN /\ stats.totalModels = n
       /\ SumOver(stats.modelsByType, DOMAIN stats.modelsByType) = n
       /\ dist.high + dist.medium + dist.low = k
       /\ k <= n
       /\ k = 0 => stats.averageAccuracy = [number |-> 0]
       /\ k > 0 =>
            /\ DOMAIN stats.averageAccuracy = {"toFixed"}
            /\ 2 * (stats.averageAccuracy.toFixed * k - total) <= k
            /\ 2 * (total - stats.averageAccuracy.toFixed * k) <= k

\* three records, one with accuracy 0 and one with a tag that is no
\* number: one is in the distribution and the average is its accuracy
C22_Witness ==
  /\ StatsAnswered
  /\ res.body.data.totalModels = 3
  /\ Cardinality(PositiveAccuracy) = 1
  /\ \E i \in 1..3 : KeyValue(StatsModels[i], "accuracy") = <<"0">>
  /\ \E i \in 1..3 : KeyValue(StatsModels[i], "accuracy") = <<"a", "b", "c">>
  /\ res.body.data.averageAccuracy \in {[toFixed |-> 9500], [toFixed |-> 9000], [toFixed |-> 7000], [toFixed |-> 5000]}

\* ------------------------------------------------------------------------
\* C23
\* ------------------------------------------------------------------------
\* the entry carries the content identifier and the pinned timestamp of a
\* row listPinnedFiles returned
FromListedRow(m) ==
  \E j \in 1..Len(lp.result.rows) :
    /\ m.modelId = Defined(lp.result.rows[j].ipfs_pin_hash)
    /\ m.ipfsHash = Defined(lp.result.rows[j].ipfs_pin_hash)
    /\ m.uploadedAt = Defined(lp.result.rows[j].date_pinned)

\* C23 as stated: every entry of a list-models or search-models response
\* has the ipfs_pin_hash of a row of the lister as modelId and ipfsHash and
\* that row's date_pinned as uploadedAt, and so have bestModel (ipfsHash)
\* and latestModel (ipfsHash, uploadedAt) of the statistics
C23_EntriesCarryRowIdentity ==
  /\ (ListModelsAnswered \/ SearchAnswered)
       => \A k \in 1..Len(res.body.data.models) : FromListedRow(res.body.data.models[k])
  /\ (StatsAnswered /\ res.body.data.bestModel # JSNull)
       => \E j \in 1..Len(lp.result.rows) :
            res.body.data.bestModel.ipfsHash = Defined(lp.result.rows[j].ipfs_pin_hash)
  /\ (StatsAnswered /\ res.body.data.latestModel # JSNull)
       => \E j \in 1..Len(lp.result.rows) :
            /\ res.body.data.latestModel.ipfsHash = Defined(lp.result.rows[j].ipfs_pin_hash)
            /\ res.body.data.latestModel.uploadedAt = Defined(lp.result.rows[j].date_pinned)

\* ------------------------------------------------------------------------
\* C24
\* ------------------------------------------------------------------------
\* the rows of the lister's result that are objects stored through
\* POST /api/ml/store-model
StoreModelRows ==
  {j \in 1..Len(lp.result.rows) :
     \E i \in 1..Len(stored) :
       /\ stored[i].via = "/api/ml/store-model"
       /\ stored[i].hash = lp.result.rows[j].ipfs_pin_hash}

\* the rows a route takes for model records, were the stored ones among them
ModelRowsWithStored(tft) ==
  {j \in 1..Len(lp.result.rows) :
     \/ j \in StoreModelRows
     \/ TaggedOrNamedModel(lp.result.rows[j])
     \/ tft /\ NamedTft(lp.result.rows[j])}

\* C24 as stated: once the lister returns a record stored through
\* store-model, statistics counts it in totalModels, and list-models and
\* search-models (asked without criteria, for a list shorter than their
\* limits) have an entry of its name and tags
C24_StoredModelIsListed ==
  /\ StatsAnswered
       => res.body.data.totalModels = Cardinality(ModelRowsWithStored(FALSE))
  /\ (ListModelsAnswered /\ req.query = EmptyObj /\ Len(lp.result.rows) <= 10)
       => /\ res.body.data.pagination.total = Cardinality(ModelRowsWithStored(TRUE))
          /\ \A j \in StoreModelRows : \E k \in 1..Len(res.body.data.models) :
               res.body.data.models[k].name = lp.result.rows[j].name
  /\ (SearchAnswered /\ req.query = EmptyObj /\ Len(lp.result.rows) <= 10)
       => /\ res.body.data.count = Cardinality(ModelRowsWithStored(FALSE))
          /\ \A j \in StoreModelRows : \E k \in 1..Len(res.body.data.models) :
               res.body.data.models[k].name = lp.result.rows[j].name

\* ------------------------------------------------------------------------
\* C25
\* ------------------------------------------------------------------------
\* the metadata argument an object of this run was uploaded with
UploadedWith(o) == o.content.json.metadata

\* the entry is made of the row of this stored object
EntryOf(m, o) ==
  m.name = o.pinataMetadata.name /\ m.metadata = o.pinataMetadata.keyvalues

\* C25 as stated: the entry list-models or search-models makes of a record
\* uploaded with metadata.modelType = T has modelType = T, and 'unknown'
\* only if the record was uploaded without a modelType; statistics counts
\* such a record under T
C25_ModelTypeRoundTrip ==
  /\ (ListModelsAnswered \/ SearchAnswered)
       => \A k \in 1..Len(res.body.data.models) : \A i \in 1..Len(stored) :
            EntryOf(res.body.data.models[k], stored[i])
              => IF "modelType" \in DOMAIN UploadedWith(stored[i])
                 THEN res.body.data.models[k].modelType = UploadedWith(stored[i]).modelType
                 ELSE res.body.data.models[k].modelType = Str_unknown
  /\ StatsAnswered
       => \A k \in 1..Len(StatsModels) : \A i \in 1..Len(stored) :
            (/\ StatsModels[k].ipfs_pin_hash = stored[i].hash
             /\ "modelType" \in DOMAIN UploadedWith(stored[i]))
              => UploadedWith(stored[i]).modelType \in DOMAIN res.body.data.modelsByType

\* ------------------------------------------------------------------------
\* C26
\* ------------------------------------------------------------------------
\* a comes at or before b in increasing order of the key; true for a pair
\* that has no order (an accuracy that is no number, a date that is none)
KeyLEq(sortBy, a, b) ==
  IF sortBy = "name" THEN localeCompare(a.name, b.name) <= 0
  ELSE IF sortBy = "accuracy"
    THEN a.accuracy.nan \/ b.accuracy.nan \/ a.accuracy.v <= b.accuracy.v
  ELSE IF sortBy = "size" THEN a.size <= b.size
  ELSE ~a.uploadedAt.defined \/ ~b.uploadedAt.defined \/ a.uploadedAt.v <= b.uploadedAt.v

\* the models of the response are in the order the request asked for
InRequestedOrder(sortBy, order) ==
  \A k \in 1..(Len(res.body.data.models) - 1) :
    IF order = "asc"
    THEN KeyLEq(sortBy, res.body.data.models[k], res.body.data.models[k + 1])
    ELSE KeyLEq(sortBy, res.body.data.models[k + 1], res.body.data.models[k])

\* every model of the list has a key that can be ordered
AllOrdered(sortBy) ==
  \A k \in 1..Len(ListedModels) :
    /\ sortBy = "accuracy" => ~ListedModels[k].accuracy.nan
    /\ sortBy = "date" => ListedModels[k].uploadedAt.defined

\* C26 as stated: the models list-models returns are in non-decreasing
\* order of the sort key when order is 'asc' and in non-increasing order
\* when it is 'desc', for each of date, name, accuracy and size
C26_OrderMeansTheSame ==
  (ListModelsAnswered /\ AllOrdered(QueryOr(req.query, "sortBy", "date")))
    => InRequestedOrder(QueryOr(req.query, "sortBy", "date"),
                        QueryOr(req.query, "order", "desc"))

\* ------------------------------------------------------------------------
\* C27
\* ------------------------------------------------------------------------
\* the number of model records among the rows the provider holds
ProviderModels ==
  Cardinality({k \in 1..TotalPins : TaggedNamedOrTft(ListedRow(PinAt(k)))})

\* list-models has answered a request with a limit L >= 1 for a provider
\* with a finite pin list
PageOfModels ==
  /\ ListModelsAnswered
  /\ ~endless
  /\ ~res.body.data.pagination.limit.nan
  /\ res.body.data.pagination.limit.v >= 1
  /\ ~res.body.data.pagination.offset.nan

\* C27 as stated: pagination.total is the number of model records the
\* provider holds, and the response that has hasMore = false ends with the
\* last of them, so the pages at the offsets 0, L, 2L, ... up to it hold
\* every model record once
C27_PagingIsComplete ==
  PageOfModels
    => LET page == res.body.data.pagination
       IN /\ page.total = ProviderModels
          /\ page.returned = Max(0, Min(page.limit.v, ProviderModels - page.offset.v))
          /\ page.hasMore <=> page.offset.v + page.limit.v < ProviderModels

\* ------------------------------------------------------------------------
\* C28
\* ------------------------------------------------------------------------
\* a script's call listPinnedFiles(limit) with a finite limit has returned
\* with success
ListedWithLimit ==
  /\ route = "listPinnedFiles"
  /\ ~req.limit.nan
  /\ lp.pc = "done"
  /\ lp.result.success

\* C28: a successful listPinnedFiles(limit) with a finite limit has made at
\* most max(1, ceil(limit / 100)) page requests; its count is the length of
\* its rows, which are all the rows of the answered pages, cut nowhere; for
\* limit >= 1 there are fewer than limit + 100 of them
C28_PagesAndRowsWithinLimit ==
  ListedWithLimit
    => /\ Len(PageRequests) <= Max(1, (req.limit.v + 99) \div 100)
       /\ lp.result.count = Len(lp.result.rows)
       /\ Len(lp.result.rows) = RowsThroughPage(PagesAnswered)
       /\ req.limit.v >= 1 => Len(lp.result.rows) < req.limit.v + 100

\* listPinnedFiles(5) has returned the 100 rows of the first page
C28_Witness ==
  /\ ListedWithLimit
  /\ req.limit.v = 5
  /\ Len(PageRequests) = 1
  /\ lp.result.count = 100
  /\ TotalPins > 100

\* ------------------------------------------------------------------------
\* C30
\* ------------------------------------------------------------------------
\* the criterion of the request, "" when it was not supplied
Criterion(field) == IF field \in DOMAIN req.query THEN req.query[field] ELSE <<>>

\* the text occurs in the string, letter case aside
OccursIn(text, str) ==
  \E i \in 0..(Len(str) - Len(text)) :
    \A k \in 1..Len(text) : ToLowerChar(str[i + k]) = ToLowerChar(text[k])

\* the model meets every criterion the request supplied
MeetsCriteria(m) ==
  /\ Criterion("query") # <<>>
       => \/ OccursIn(Criterion("query"), m.name)
          \/ OccursIn(Criterion("query"), m.modelType)
          \/ OccursIn(Criterion("query"), m.version)
  /\ Criterion("modelType") # <<>> => m.modelType = Criterion("modelType")
  /\ Criterion("minAccuracy") # <<>>
       => (~m.accuracy.nan /\ m.accuracy.v >= ParseFloat(Criterion("minAccuracy")).v)
  /\ Criterion("maxAccuracy") # <<>>
       => (~m.accuracy.nan /\ m.accuracy.v <= ParseFloat(Criterion("maxAccuracy")).v)
  /\ Criterion("fromDate") # <<>>
       => (m.uploadedAt.defined /\ m.uploadedAt.v >= ParseDate(Criterion("fromDate")).v)
  /\ Criterion("toDate") # <<>>
       => (m.uploadedAt.defined /\ m.uploadedAt.v <= ParseDate(Criterion("toDate")).v)

RECURSIVE IsSubsequence(_, _)
\* xs is ys with some elements left out
IsSubsequence(xs, ys) ==
  IF xs = <<>> THEN TRUE
  ELSE IF ys = <<>> THEN FALSE
  ELSE IF Head(xs) = Head(ys) THEN IsSubsequence(Tail(xs), Tail(ys))
  ELSE IsSubsequence(xs, Tail(ys))

\* the limit of the request
SearchLimit == QueryInt(req.query, "limit", 50)

\* C30 as stated: every model of a search-models response meets every
\* criterion supplied, there are at most limit models (none when limit is
\* no number), count is their number, and they are in the order in which
\* the lister returned their rows
C30_SearchResultIsSound ==
  SearchAnswered
    => LET models == res.body.data.models
       IN /\ \A k \in 1..Len(models) : MeetsCriteria(models[k])
          /\ Len(models) <= (IF SearchLimit.nan THEN 0 ELSE SearchLimit.v)
          /\ res.body.data.count = Len(models)
          /\ IsSubsequence([k \in 1..Len(models) |-> models[k].name],
                           [j \in 1..Len(lp.result.rows) |-> lp.result.rows[j].name])

====
